---- MODULE Spec2Model ----
(***************************************************************************)
(* The J-Link SWD driver of probe-rs (src/probe-rs/src/probe/jlink/mod.rs) *)
(* as a state machine: the bit-level SWD frame codec, the sequencer        *)
(* perform_transfers that batches transfers into one burst, and the retry  *)
(* loops of DAPAccess::read_register / write_register.                     *)
(***************************************************************************)
EXTENDS Integers, Sequences, FiniteSets, TLC

(***************************************************************************)
(* Bounds of the model.                                                    *)
(***************************************************************************)
\* Longest batch handed to perform_transfers.
MaxLen == 2
\* Deepest nesting of DAPAccess calls the stack holds: a call nested deeper
\* overflows the stack.
MaxDepth == 2
MaxBits == 6
\* The count of swd_io calls stops at BurstCap, which stands for "or more".
BurstCap == 21

(***************************************************************************)
(* Program constants.                                                      *)
(***************************************************************************)
\* let idle_cycles = 16;
idle_cycles == 16
\* let dap_wait_retries = 20;
dap_wait_retries == 20
\* const NUM_RESET_BITS: usize = 50;
NUM_RESET_BITS == 50
\* ADIv5 debug port register addresses (architecture::arm::dp).
Abort_ADDRESS == 0
DPIDR_ADDRESS == 0
Ctrl_ADDRESS == 4
RdBuff_ADDRESS == 12

(***************************************************************************)
(* Data model.                                                             *)
(***************************************************************************)
\* enum PortType { DebugPort, AccessPort(u8) }
DebugPort == [type |-> "DebugPort", index |-> 0]
AccessPort(i) == [type |-> "AccessPort", index |-> i]

\* enum TransferType { Read, Write(u32) }
TypeRead == [kind |-> "Read", value |-> 0]
TypeWrite(v) == [kind |-> "Write", value |-> v]

\* enum TransferStatus { Pending, Ok, Failed(DapError) }
Pending == [tag |-> "Pending", err |-> "none"]
StatusOk == [tag |-> "Ok", err |-> "none"]
Failed(e) == [tag |-> "Failed", err |-> e]

\* Every TransferStatus, and the status of a burst swd_io failed on.
Statuses ==
    {Pending, StatusOk}
    \cup { Failed(e) : e \in {"NoAcknowledge", "WaitResponse", "FaultResponse",
                              "IncorrectParity", "SwdProtocol", "ProbeSpecific"} }

\* Result<u32, DapError>
Ok(v) == [ok |-> TRUE, value |-> v, err |-> "none"]
Err(e) == [ok |-> FALSE, value |-> 0, err |-> e]

\* struct SwdTransfer { port, direction, address, value, status }
SwdTransfer(port, direction, address, value) ==
    [port |-> port, direction |-> direction, address |-> address,
     value |-> value, status |-> Pending]

\* SwdTransfer::transfer_type
transfer_type(t) ==
    IF t.direction = "Read" THEN TypeRead ELSE TypeWrite(t.value)

(***************************************************************************)
(* Slices with the source's 0-based indices.                               *)
(***************************************************************************)
\* response[i]
At(s, i) == s[i + 1]
\* response[from..to]
Slice(s, from, to) == SubSeq(s, from + 1, to)
\* response[from..]
SliceFrom(s, from) == SubSeq(s, from + 1, Len(s))
\* vec![bit; n]
Repeat(bit, n) == [i \in 1..n |-> bit]

(***************************************************************************)
(* IoSequence: co-indexed io and direction bits.                           *)
(***************************************************************************)
INPUT == FALSE
OUTPUT == TRUE

\* IoSequence::new
IoSequence_new == [io |-> <<>>, direction |-> <<>>]

\* IoSequence::add_output
add_output(s, bit) ==
    [io |-> Append(s.io, bit), direction |-> Append(s.direction, OUTPUT)]

\* IoSequence::add_output_sequence
add_output_sequence(s, bits) ==
    [io |-> s.io \o bits, direction |-> s.direction \o Repeat(OUTPUT, Len(bits))]

\* IoSequence::add_input
add_input(s) ==
    [io |-> Append(s.io, FALSE), direction |-> Append(s.direction, INPUT)]

\* Mutant: the io bits of an input sequence are left out.
add_input_sequence_DirectionOnly(s, length) ==
    [io |-> s.io, direction |-> s.direction \o Repeat(INPUT, length)]

\* IoSequence::add_input_sequence
add_input_sequence(s, length) ==
    [io |-> s.io \o Repeat(FALSE, length),
     direction |-> s.direction \o Repeat(INPUT, length)]

\* IoSequence::extend
extend(s, other) ==
    [io |-> s.io \o other.io, direction |-> s.direction \o other.direction]

(***************************************************************************)
(* SWD frame codec.                                                        *)
(***************************************************************************)
\* (value >> n) & 1 == 1, for n in 0..31
BitOf(value, n) ==
    IF n = 0 THEN value % 2 = 1 ELSE ((value \div (2 ^ (n - 1))) \div 2) % 2 = 1

\* Mutant: the data bits most significant first.
WriteData_MsbFirst(sequence, value) ==
    LET bits == [i \in 1..32 |-> BitOf(value, 32 - i)]
        parity == Cardinality({i \in 1..32 : bits[i]}) % 2 = 1
    IN  add_output(add_output_sequence(sequence, bits), parity)

\* The write data loop of build_swd_transfer: 32 data bits LSB-first, the
\* parity accumulated in the same loop (the XOR of the 32 bits), then the
\* parity bit; every bit is added with add_output.
WriteData(sequence, value) ==
    LET bits == [i \in 1..32 |-> BitOf(value, i - 1)]
        parity == Cardinality({i \in 1..32 : bits[i]}) % 2 = 1
    IN  add_output(add_output_sequence(sequence, bits), parity)

\* fn build_swd_transfer(port, direction, address) -> IoSequence
build_swd_transfer(port, direction, address) ==
    LET port_bit == port.type = "AccessPort"
        direction_bit == direction.kind = "Read"
        a2 == (address \div 4) % 2 = 1
        a3 == (address \div 8) % 2 = 1
        \* two idle bits
        s1 == add_output(add_output(IoSequence_new, FALSE), FALSE)
        \* start, APnDP, RnW
        s2 == add_output(add_output(add_output(s1, TRUE), port_bit), direction_bit)
        \* A2, A3
        s3 == add_output(add_output(s2, a2), a3)
        \* parity over APnDP, RnW, A2, A3; stop; park
        s4 == add_output(add_output(add_output(s3,
                  ((port_bit # direction_bit) # a2) # a3), FALSE), TRUE)
        \* turnaround, three ACK bits
        s5 == add_input_sequence(add_input(s4), 3)
    IN  IF direction.kind = "Write"
        THEN WriteData(add_input(s5), direction.value)
        ELSE add_input(add_input(add_input_sequence(s5, 32)))

\* fn response_length(direction) -> usize
response_length(direction) ==
    IF direction.kind = "Read" THEN 2 + 8 + 3 + 32 + 1 + 2
    ELSE 2 + 8 + 3 + 2 + 32 + 1

\* fn bits_to_byte(bits) -> u32: take(32).enumerate(), bit_val |= 1 << index
RECURSIVE BitsToByteFrom(_, _)
BitsToByteFrom(bits, index) ==
    IF index >= Len(bits) \/ index >= 32 THEN 0
    ELSE (IF At(bits, index) THEN 2 ^ index ELSE 0) + BitsToByteFrom(bits, index + 1)

\* Mutant: the first bit is the most significant of the 32.
bits_to_byte_MsbFirst(bits) ==
    BitsToByteFrom([i \in 1..Len(bits) |-> bits[Len(bits) + 1 - i]], 0)

bits_to_byte(bits) == BitsToByteFrom(bits, 0)

\* u32::count_ones
RECURSIVE count_ones(_)
count_ones(value) ==
    IF value = 0 THEN 0 ELSE (value % 2) + count_ones(value \div 2)

\* fn parse_swd_response(response, direction) -> Result<u32, DapError>
parse_swd_response(response, direction) ==
    LET \* two idle bits and eight request bits are thrown away
        ack_index == 2 + 8
        ack == Slice(response, ack_index, ack_index + 3)
        \* a write skips two turnaround bits
        val_index == IF direction.kind = "Write" THEN ack_index + 3 + 2
                     ELSE ack_index + 3
        register_val == Slice(response, val_index, val_index + 32)
        parity_bit == At(response, val_index + 32)
    IN  IF At(ack, 0) /\ At(ack, 1) /\ At(ack, 2) THEN Err("NoAcknowledge")
        ELSE IF At(ack, 1) THEN Err("WaitResponse")
        ELSE IF At(ack, 2) THEN Err("FaultResponse")
        ELSE IF At(ack, 0)
             THEN IF direction.kind = "Read"
                  THEN LET value == bits_to_byte(register_val)
                       IN  IF (count_ones(value) % 2 = 1) = parity_bit
                           THEN Ok(value)
                           ELSE Err("IncorrectParity")
                  ELSE Ok(0)
        ELSE Err("SwdProtocol")

(***************************************************************************)
(* perform_transfers: the sequencer.  Its locals are one record:           *)
(*   io_sequence, expected_responses, result_indices, num_transfers,       *)
(*   need_ap_read, buffered_write, write_response_pending                  *)
(* and wire, the log of what was appended to io_sequence: one entry per    *)
(* frame, src = k for the frame of the caller's k-th transfer (1-based)    *)
(* and 0 for an auxiliary frame, idle = the frame is followed by the       *)
(* idle cycles.                                                            *)
(***************************************************************************)
\* matches!(transfer.port, AccessPort(_)) && transfer.direction == Read
is_ap_read(transfer) ==
    transfer.port.type = "AccessPort" /\ transfer.direction = "Read"

\* Mutant: an AP read counts as a buffered write too.
is_ap_write_AnyDirection(transfer) == transfer.port.type = "AccessPort"

\* matches!(transfer.port, AccessPort(_)) && transfer.direction == Write
is_ap_write(transfer) ==
    transfer.port.type = "AccessPort" /\ transfer.direction = "Write"

abort_write(transfer) ==
    /\ transfer.port = DebugPort
    /\ transfer.address = Abort_ADDRESS
    /\ transfer.direction = "Write"

dpidr_read(transfer) ==
    /\ transfer.port = DebugPort
    /\ transfer.address = DPIDR_ADDRESS
    /\ transfer.direction = "Read"

ctrl_stat_read(transfer) ==
    /\ transfer.port = DebugPort
    /\ transfer.address = Ctrl_ADDRESS
    /\ transfer.direction = "Read"

\* io_sequence.extend(&build_swd_transfer(port, type, address))
EmitFrame(st, port, type, address, src) ==
    [st EXCEPT
       !.io_sequence = extend(@, build_swd_transfer(port, type, address)),
       !.wire = Append(@, [port |-> port, kind |-> type.kind, address |-> address,
                           value |-> type.value, src |-> src, idle |-> FALSE])]

\* Mutant: no idle cycles after a write.
EmitIdle_None(st) == st

\* io_sequence.add_output_sequence(&vec![false; idle_cycles])
EmitIdle(st) ==
    [st EXCEPT
       !.io_sequence = add_output_sequence(@, Repeat(FALSE, idle_cycles)),
       !.wire = [@ EXCEPT ![Len(@)].idle = TRUE]]

\* Mutant: idle cycles follow the extra read of RDBUFF as well.
EmitRdBuff_Idle(st) ==
    EmitIdle([EmitFrame(st, DebugPort, TypeRead, RdBuff_ADDRESS, 0) EXCEPT
                !.num_transfers = @ + 1,
                !.expected_responses = Append(@, "Read")])

\* An extra read of RDBUFF, which has no response of its own.
EmitRdBuff(st) ==
    [EmitFrame(st, DebugPort, TypeRead, RdBuff_ADDRESS, 0) EXCEPT
       !.num_transfers = @ + 1,
       !.expected_responses = Append(@, "Read")]

\* Mutant: the response is always looked for in the transfer's own frame.
ResultIndex_OwnFrame(need_ap_read, write_response_pending, num_transfers) ==
    num_transfers

\* If the response is returned in the next transfer, the index is one more.
ResultIndex(need_ap_read, write_response_pending, num_transfers) ==
    IF need_ap_read \/ write_response_pending
    THEN num_transfers + 1
    ELSE num_transfers

\* The flags set from a transfer, the idle cycles after a write, the result
\* index, the expected response and the count: lines 393-414 and 472-492.
AfterFrame(st, transfer) ==
    LET flagged == [st EXCEPT
                      !.need_ap_read = is_ap_read(transfer),
                      !.buffered_write = is_ap_write(transfer),
                      !.write_response_pending = transfer.direction = "Write"]
        idled == IF flagged.write_response_pending THEN EmitIdle(flagged) ELSE flagged
    IN  [idled EXCEPT
           !.result_indices = Append(@, ResultIndex(idled.need_ap_read,
                                        idled.write_response_pending,
                                        idled.num_transfers)),
           !.expected_responses = Append(@, transfer.direction),
           !.num_transfers = @ + 1]

\* Lines 373-414: the locals after the first transfer.
FirstTransfer(transfers) ==
    LET first_transfer == transfers[1]
        st0 == [io_sequence |-> IoSequence_new,
                expected_responses |-> <<>>,
                result_indices |-> <<>>,
                num_transfers |-> 0,
                need_ap_read |-> FALSE,
                buffered_write |-> FALSE,
                write_response_pending |-> FALSE,
                wire |-> <<>>]
    IN  AfterFrame(EmitFrame(st0, first_transfer.port,
                             transfer_type(first_transfer),
                             first_transfer.address, 1),
                   first_transfer)

\* Mutant: RDBUFF is read after every AP read, also before another AP read.
HarvestApRead_Always(st, transfer) ==
    IF st.need_ap_read THEN EmitRdBuff(st) ELSE st

\* if !is_ap_read && need_ap_read: read RDBUFF to get the AP read's value.
HarvestApRead(st, transfer) ==
    IF ~is_ap_read(transfer) /\ st.need_ap_read THEN EmitRdBuff(st) ELSE st

\* Mutant: RDBUFF is read behind a buffered write whatever follows.
DrainBufferedWrite_Always(st, transfer) ==
    IF st.buffered_write THEN EmitRdBuff(st) ELSE st

\* Mutant: a CTRL/STAT read is let through behind a buffered write.
DrainBufferedWrite_NoCtrlStat(st, transfer) ==
    IF /\ st.buffered_write
       /\ (abort_write(transfer) \/ dpidr_read(transfer))
    THEN EmitRdBuff(st)
    ELSE st

\* if buffered_write and the transfer must not overtake it: read RDBUFF.
DrainBufferedWrite(st, transfer) ==
    IF /\ st.buffered_write
       /\ (abort_write(transfer) \/ dpidr_read(transfer) \/ ctrl_stat_read(transfer))
    THEN EmitRdBuff(st)
    ELSE st

\* Mutant: in the loop the result index is pushed after num_transfers was
\* incremented.
LoopBody_IndexAfterCount(st, transfer, k) ==
    LET drained == DrainBufferedWrite(HarvestApRead(st, transfer), transfer)
        done == AfterFrame(EmitFrame(drained, transfer.port, transfer_type(transfer),
                                     transfer.address, k),
                           transfer)
    IN  [done EXCEPT
           !.result_indices = [i \in DOMAIN @ |->
                                  IF i = Len(@) THEN @[i] + 1 ELSE @[i]]]

\* Lines 416-493: one iteration of the loop, for the k-th transfer.
LoopBody(st, transfer, k) ==
    LET harvested == HarvestApRead(st, transfer)
        \* buffered_write is read after the harvest, as in the source
        drained == DrainBufferedWrite(harvested, transfer)
    IN  AfterFrame(EmitFrame(drained, transfer.port, transfer_type(transfer),
                             transfer.address, k),
                   transfer)

\* for transfer in &transfers[1..]
RECURSIVE Loop(_, _, _)
Loop(st, transfers, k) ==
    IF k > Len(transfers) THEN st
    ELSE Loop(LoopBody(st, transfers[k], k), transfers, k + 1)

\* Lines 495-505: the trailing read of RDBUFF.
Trailing(st) ==
    IF st.need_ap_read \/ st.write_response_pending \/ st.buffered_write
    THEN EmitRdBuff(st)
    ELSE st

\* Mutant: the loop runs over transfers[0..] and emits the first one twice.
BuildSequence_FromFirst(transfers) ==
    Trailing(Loop(FirstTransfer(transfers), transfers, 1))

\* Lines 373-511: everything before the swd_io call.
BuildSequence(transfers) ==
    Trailing(Loop(FirstTransfer(transfers), transfers, 2))

\* Mutant: the idle cycles after a write are not skipped.
RECURSIVE ParseLoop_NoIdle(_, _, _, _)
ParseLoop_NoIdle(result, expected_responses, i, read_index) ==
    IF i > Len(expected_responses) THEN <<>>
    ELSE LET response_type == IF expected_responses[i] = "Read"
                              THEN TypeRead ELSE TypeWrite(0)
         IN  <<parse_swd_response(SliceFrom(result, read_index), response_type)>>
             \o ParseLoop_NoIdle(result, expected_responses, i + 1,
                                 read_index + response_length(response_type))

\* Lines 520-541: parse the response frame by frame.
RECURSIVE ParseLoop(_, _, _, _)
ParseLoop(result, expected_responses, i, read_index) ==
    IF i > Len(expected_responses) THEN <<>>
    ELSE LET response_direction == expected_responses[i]
             response_type == IF response_direction = "Read"
                              THEN TypeRead ELSE TypeWrite(0)
             response == parse_swd_response(SliceFrom(result, read_index),
                                            response_type)
             advanced == read_index + response_length(response_type)
                         + (IF response_direction = "Write" THEN idle_cycles ELSE 0)
         IN  <<response>> \o ParseLoop(result, expected_responses, i + 1, advanced)

ParseResponses(result, expected_responses) ==
    ParseLoop(result, expected_responses, 1, 0)

\* Mutant: the word of an Ok response is stored whatever the direction.
Retrieve_AnyDirection(transfer, response) ==
    IF response.ok
    THEN [transfer EXCEPT !.value = response.value, !.status = StatusOk]
    ELSE [transfer EXCEPT !.status = Failed(response.err)]

\* Mutant: an error response leaves the transfer as it was.
Retrieve_OkOnly(transfer, response) ==
    IF response.ok
    THEN [transfer EXCEPT
            !.value = IF transfer.direction = "Read" THEN response.value ELSE @,
            !.status = StatusOk]
    ELSE transfer

\* Lines 545-556: the result of one transfer from its response.
Retrieve(transfer, response) ==
    IF response.ok
    THEN [transfer EXCEPT
            !.value = IF transfer.direction = "Read" THEN response.value ELSE @,
            !.status = StatusOk]
    ELSE [transfer EXCEPT !.status = Failed(response.err)]

\* Lines 543-557: transfers.iter_mut().zip(result_indices)
RetrieveResults(transfers, result_indices, responses) ==
    [k \in 1..Len(transfers) |->
        Retrieve(transfers[k], At(responses, result_indices[k]))]

\* perform_transfers after a successful swd_io that returned result.
perform_transfers(transfers, result) ==
    LET st == BuildSequence(transfers)
    IN  RetrieveResults(transfers, st.result_indices,
                        ParseResponses(result, st.expected_responses))

(***************************************************************************)
(* The probe and the target behind it: swd_io returns as many sampled bits *)
(* as it was given.  The target answers every frame on the wire with three *)
(* ACK bits, a data word and a parity bit, at the positions the J-Link     *)
(* samples them.                                                           *)
(***************************************************************************)
\* register_value of test::single_ap_register_read
RegisterValue == 287454020
\* value of test::single_dp_register_write
WriteValue == 305419896

\* The 32 bits of a data word, least significant first.  Data words are drawn
\* below 2^31, the largest the model checker's integers hold.
Bits32(v) == [i \in 1..32 |-> BitOf(v, i - 1)]

AckOk == <<TRUE, FALSE, FALSE>>
AckWait == <<FALSE, TRUE, FALSE>>
AckFault == <<FALSE, FALSE, TRUE>>
AckNone == <<TRUE, TRUE, TRUE>>
AckZero == <<FALSE, FALSE, FALSE>>

Answer(ack, data, par_ok) == [ack |-> ack, data |-> data, par_ok |-> par_ok]

\* The sampled bits of one frame and of the idle cycles after it.
FrameResponse(frame, answer) ==
    LET parity == (count_ones(answer.data) % 2 = 1) = answer.par_ok
        bits == IF frame.kind = "Read"
                THEN Repeat(FALSE, 10) \o answer.ack \o Bits32(answer.data)
                       \o <<parity, FALSE, FALSE>>
                ELSE Repeat(FALSE, 10) \o answer.ack \o <<FALSE, FALSE>>
                       \o Bits32(answer.data) \o <<parity>>
    IN  IF frame.idle THEN bits \o Repeat(FALSE, idle_cycles) ELSE bits

\* The answers the target gives in a batch.
BatchAnswers ==
    { Answer(AckOk, RegisterValue, TRUE),
      Answer(AckOk, 0, TRUE),
      Answer(AckOk, RegisterValue, FALSE),
      Answer(AckWait, 0, TRUE) }

\* CTRL/STAT values the target reports: nothing sticky, STICKYORUN,
\* STICKYERR, both.
CtrlValues == {0, 2, 32, 34}

\* The answers the target gives to the bursts of a DAPAccess call.
DapAnswers ==
    { Answer(AckOk, v, TRUE) : v \in CtrlValues }
    \cup { Answer(AckOk, 0, FALSE),
           Answer(AckWait, 0, TRUE),
           Answer(AckFault, 0, TRUE),
           Answer(AckNone, 0, TRUE),
           Answer(AckZero, 0, TRUE) }

\* FrameResponse for every frame and answer.
SampledFrame ==
    [kind \in {"Read", "Write"}, idle \in BOOLEAN,
     answer \in BatchAnswers \cup DapAnswers |->
        FrameResponse([kind |-> kind, idle |-> idle], answer)]

\* The sampled bits of a whole burst.
RECURSIVE WireResponse(_, _, _)
WireResponse(wire, answers, i) ==
    IF i > Len(wire) THEN <<>>
    ELSE SampledFrame[wire[i].kind, wire[i].idle, answers[i]]
           \o WireResponse(wire, answers, i + 1)

\* The transfers a batch is made of.
BatchTransfers ==
    { SwdTransfer(DebugPort, "Read", DPIDR_ADDRESS, 0),
      SwdTransfer(DebugPort, "Read", Ctrl_ADDRESS, 0),
      \* a read whose value field holds a word from before the call
      SwdTransfer(DebugPort, "Read", 8, WriteValue),
      SwdTransfer(DebugPort, "Write", Abort_ADDRESS, WriteValue),
      SwdTransfer(DebugPort, "Write", 8, WriteValue),
      SwdTransfer(AccessPort(0), "Read", 0, 0),
      SwdTransfer(AccessPort(0), "Write", 4, WriteValue) }

Batches == UNION { [1..n -> BatchTransfers] : n \in 1..MaxLen }

(***************************************************************************)
(* DAPAccess::read_register and DAPAccess::write_register: the retry loop  *)
(* around one transfer, and swd_line_reset.  A call is a frame on the call *)
(* stack; the calls the loop makes on itself are frames above it.          *)
(***************************************************************************)
\* Abort(0) after set_orunerrclr(orunerrclr) and set_stkerrclr(stkerrclr),
\* as the u32 written to the register: ORUNERRCLR is bit 4, STKERRCLR bit 2.
Abort(orunerrclr, stkerrclr) ==
    (IF orunerrclr THEN 16 ELSE 0) + (IF stkerrclr THEN 4 ELSE 0)

\* Ctrl::from(response).sticky_orun(): STICKYORUN is bit 1 of CTRL/STAT
sticky_orun(ctrl) == BitOf(ctrl, 1)

\* Ctrl::from(response).sticky_err(): STICKYERR is bit 5 of CTRL/STAT
sticky_err(ctrl) == BitOf(ctrl, 5)

\* Result<_, DebugProbeError> of a call; NoRet while it has not returned.
NoRet == [tag |-> "none", value |-> 0, err |-> "none"]
OkRet(v) == [tag |-> "Ok", value |-> v, err |-> "none"]
ErrRet(e) == [tag |-> "Err", value |-> 0, err |-> e]
\* the recursion ran out of stack: the process is gone, nothing is returned
StackOverflow == [tag |-> "StackOverflow", value |-> 0, err |-> "none"]

\* The call fn(port, address, value) entering its loop.
Frame(fn, port, address, value) ==
    [fn |-> fn, port |-> port, address |-> address, value |-> value,
     retry |-> 0, at |-> "attempt", attempts |-> 0]

\* let mut transfers = [SwdTransfer { port, address, value, direction, status: Pending }]
FrameTransfers(f) ==
    << SwdTransfer(f.port,
                   IF f.fn = "read_register" THEN "Read" ELSE "Write",
                   f.address,
                   IF f.fn = "read_register" THEN 0 ELSE f.value) >>

\* The calls made from outside, and every transfer a call can attempt.
DapCalls ==
    { Frame("read_register", DebugPort, DPIDR_ADDRESS, 0),
      Frame("read_register", AccessPort(0), 0, 0),
      Frame("write_register", DebugPort, 8, WriteValue),
      Frame("write_register", AccessPort(0), 4, WriteValue) }

RecoveryCalls ==
    { Frame("read_register", DebugPort, Ctrl_ADDRESS, 0) }
    \cup { Frame("write_register", DebugPort, Abort_ADDRESS, Abort(o, s)) :
             o \in BOOLEAN, s \in BOOLEAN }

\* How the target answered a burst: every frame OK, every frame WAIT, or
\* anything else.
AnswerClass(answers) ==
    IF \A i \in DOMAIN answers : answers[i].ack = AckOk /\ answers[i].par_ok
    THEN "ok"
    ELSE IF \A i \in DOMAIN answers : answers[i].ack = AckWait
    THEN "wait"
    ELSE "other"

\* perform_transfers(self, &mut transfers) with swd_io answering `answers`:
\* transfers[0].status and transfers[0].value afterwards.
AttemptOutcome(f, answers) ==
    LET st == BuildSequence(FrameTransfers(f))
        bits == WireResponse(st.wire, answers, 1)
        parsed == ParseResponses(bits, st.expected_responses)
        done == RetrieveResults(FrameTransfers(f), st.result_indices, parsed)
    IN  [status |-> done[1].status, value |-> done[1].value,
         class |-> AnswerClass(answers)]

\* Every outcome of one attempt of a call, over the target's answers.
AttemptOutcomes ==
    [f \in DapCalls \cup RecoveryCalls |->
        { AttemptOutcome(f, answers) :
            answers \in [1..Len(BuildSequence(FrameTransfers(f)).wire) -> DapAnswers] }]

\* swd_line_reset: the sequence it clocks out, 50 ones and a read of DPIDR
LineResetSequence ==
    extend(add_output_sequence(IoSequence_new, Repeat(TRUE, NUM_RESET_BITS)),
           build_swd_transfer(DebugPort, TypeRead, 0))

\* swd_line_reset: parse_swd_response(&mut result_sequence[NUM_RESET_BITS..], Read)
\* of one burst, the target answering the read with `answer`.
LineResetOutcome(answer) ==
    LET result_sequence ==
            Repeat(FALSE, NUM_RESET_BITS)
            \o SampledFrame["Read", FALSE, answer]
        parsed == parse_swd_response(SliceFrom(result_sequence, NUM_RESET_BITS), TypeRead)
    IN  [ok |-> parsed.ok, err |-> parsed.err,
         class |-> AnswerClass(<<answer>>)]

LineResetOutcomes == { LineResetOutcome(answer) : answer \in DapAnswers }

\* No burst yet.
NoBurst ==
    [kind |-> "none", port |-> DebugPort, direction |-> "Read", address |-> 0,
     value |-> 0, depth |-> 0, nth |-> 0, status |-> Pending, data |-> 0]

\* The burst of one attempt of the call f, nested `depth` deep; data is the
\* value a read brought back.
TransferBurst(f, depth, status, data) ==
    [kind |-> "transfer", port |-> f.port,
     direction |-> FrameTransfers(f)[1].direction, address |-> f.address,
     value |-> FrameTransfers(f)[1].value, depth |-> depth, nth |-> 0,
     status |-> status, data |-> data]

\* The nth burst of a line reset.
LineResetBurst(depth, nth, status) ==
    [kind |-> "line_reset", port |-> DebugPort, direction |-> "Read",
     address |-> 0, value |-> 0, depth |-> depth, nth |-> nth,
     status |-> status, data |-> 0]

\* swd_io failed: no bits came back
IoError == Failed("ProbeSpecific")

\* The bursts heard while the target answers the first one WAIT and every
\* later one OK.
NothingHeard == [script |-> "start", bursts |-> <<>>]
Hear(h, burst, class) ==
    CASE h.script = "start" /\ class = "wait" ->
            [script |-> "wait_then_ok", bursts |-> <<burst>>]
      [] h.script = "wait_then_ok" /\ class = "ok" ->
            [script |-> "wait_then_ok", bursts |-> Append(h.bursts, burst)]
      [] OTHER -> [script |-> "other", bursts |-> <<>>]

\* The call on top of the stack and the ones below it.
Top(stk) == stk[Len(stk)]
Below(stk) == SubSeq(stk, 1, Len(stk) - 1)
SetTop(stk, f) == [stk EXCEPT ![Len(stk)] = f]

\* Calling f from the call on top of the stack, which waits at `at`.
PushCall(stk, at, f) ==
    IF Len(stk) >= MaxDepth
    THEN [stack |-> stk, ret |-> StackOverflow]
    ELSE [stack |-> Append(SetTop(stk, [Top(stk) EXCEPT !.at = at]), f),
          ret |-> NoRet]

\* `continue`: the next iteration of `for retry in 0..dap_wait_retries`
Continue(stk) ==
    [stack |-> SetTop(stk, [Top(stk) EXCEPT !.at = "attempt", !.retry = @ + 1]),
     ret |-> NoRet]

\* Mutant: a failed Abort write or CTRL/STAT read is ignored.
Propagate_Ignored(r) == OkRet(r.value)

\* `?` on the result of a nested call: what goes on in the caller
Propagate(r) == r

\* Mutant: both sticky flags are always cleared.
FaultAbort_Both(ctrl) == Abort(TRUE, TRUE)

\* abort.set_orunerrclr(ctrl.sticky_orun()); abort.set_stkerrclr(ctrl.sticky_err())
FaultAbort(ctrl) == Abort(sticky_orun(ctrl), sticky_err(ctrl))

\* The call on top of the stack returns r: its caller goes on from where
\* it made the call, up to its next swd_io or its own return.
RECURSIVE Return(_, _)
Return(stk, r) ==
    LET rest == Below(stk)
        got == Propagate(r)
    IN  IF rest = <<>> THEN [stack |-> <<>>, ret |-> r]
        ELSE CASE Top(rest).at = "wait_abort" ->
                    \* DAPAccess::write_register(self, DebugPort, Abort::ADDRESS, abort)?; continue
                    IF got.tag = "Ok" THEN Continue(rest) ELSE Return(rest, got)
               [] Top(rest).at = "fault_ctrl" ->
                    \* let response = DAPAccess::read_register(self, DebugPort, Ctrl::ADDRESS)?
                    IF got.tag # "Ok" THEN Return(rest, got)
                    ELSE IF sticky_orun(got.value) \/ sticky_err(got.value)
                    THEN PushCall(rest, "fault_abort",
                                  Frame("write_register", DebugPort, Abort_ADDRESS,
                                        FaultAbort(got.value)))
                    ELSE Return(rest, ErrRet("FaultResponse"))
               [] Top(rest).at = "fault_abort" ->
                    \* DAPAccess::write_register(..)?; return Err(DapError::FaultResponse.into())
                    IF got.tag = "Ok" THEN Return(rest, ErrRet("FaultResponse"))
                    ELSE Return(rest, got)

\* Mutant: WaitResponse is recovered by a line reset.
WaitRecovery_LineReset(stk) == [stack |-> SetTop(stk, [Top(stk) EXCEPT !.at = "line_reset_1"]), ret |-> NoRet]

\* TransferStatus::Failed(DapError::WaitResponse): Abort(0) with orunerrclr is written
WaitRecovery(stk) ==
    PushCall(stk, "wait_abort",
             Frame("write_register", DebugPort, Abort_ADDRESS, Abort(TRUE, FALSE)))

\* The match on transfers[0].status after perform_transfers returned Ok.
AfterAttempt(stk, outcome) ==
    CASE outcome.status = StatusOk ->
            Return(stk, OkRet(IF Top(stk).fn = "read_register"
                              THEN outcome.value ELSE 0))
      [] outcome.status = Pending -> Continue(stk)
      [] outcome.status = Failed("WaitResponse") -> WaitRecovery(stk)
      [] outcome.status = Failed("FaultResponse") ->
            PushCall(stk, "fault_ctrl",
                     Frame("read_register", DebugPort, Ctrl_ADDRESS, 0))
      [] OTHER ->
            [stack |-> SetTop(stk, [Top(stk) EXCEPT !.at = "line_reset_1"]),
             ret |-> NoRet]

\* Mutant: the loop runs once more.
LoopRuns_Inclusive(f) == f.retry <= dap_wait_retries

\* for retry in 0..dap_wait_retries
LoopRuns(f) == f.retry < dap_wait_retries

\* Mutant: the line reset is tried once.
AfterLineReset_Once(stk, outcome) ==
    IF outcome.ok THEN Continue(stk) ELSE Return(stk, ErrRet(outcome.err))

\* swd_line_reset after a burst was parsed, and `self.swd_line_reset()?; continue`
AfterLineReset(stk, outcome) ==
    IF outcome.ok THEN Continue(stk)
    ELSE IF Top(stk).at = "line_reset_1"
    THEN [stack |-> SetTop(stk, [Top(stk) EXCEPT !.at = "line_reset_2"]),
          ret |-> NoRet]
    ELSE Return(stk, ErrRet(outcome.err))

(***************************************************************************)
(* State.                                                                  *)
(***************************************************************************)
VARIABLES
    pc,          \* where the caller of perform_transfers is
    transfers,   \* the caller's batch
    locals,      \* perform_transfers' locals when it calls swd_io
    result,      \* the bits swd_io returned
    responses,   \* the parsed responses, one per frame
    ret,         \* what perform_transfers returned
    twin,        \* a second batch, and what perform_transfers built from it
    stack,       \* the DAPAccess calls in progress, the innermost last
    dap_ret,     \* what the outermost DAPAccess call returned
    n_bursts,    \* swd_io calls made since the outermost call began
    last_burst,  \* the burst of the latest swd_io call and how it ended
    heard,       \* the bursts so far, while the target answers WAIT then OK
    target,      \* what the target can make of an attempt and of a line reset
    parse_in,    \* the response and direction parse_swd_response is given
    parse_out,   \* what parse_swd_response returned
    codec_in,    \* the port, direction and address build_swd_transfer is given
    codec_out,   \* the IoSequence build_swd_transfer returned
    current_ir_reg,  \* JLink::current_ir_reg
    jtag_pc,     \* where the JTAGAccess call in progress is
    jtag_call,   \* the JTAGAccess call in progress, or the last one
    jtag_ret,    \* what the last JTAGAccess call returned
    jtag_log,    \* the jtag_io calls of that call
    ir_shifted,  \* the value of the last IR write whose jtag_io succeeded
    last_ok,     \* the address of the call before, if it returned Ok
    n_access,    \* JTAGAccess calls made so far, up to 2
    jtag_idle_cycles,  \* JLink::jtag_idle_cycles
    jtag_data,   \* the bytes the last read_dr or write_dr returned, if any
    protocol,    \* JLink::protocol
    speed_khz,   \* JLink::speed_khz
    handle,      \* the J-Link behind JLink::handle
    probe_pc,    \* where the DebugProbe call in progress is
    probe_call,  \* the DebugProbe call in progress, or the last one
    probe_ret,   \* what the last DebugProbe call returned
    probe_log,   \* the calls that call made on the handle
    swo_config   \* JLink::swo_config

batch_vars == <<pc, transfers, locals, result, responses, ret, twin>>
dap_vars == <<stack, dap_ret, n_bursts, last_burst, heard, target>>
parse_vars == <<parse_in, parse_out, codec_in, codec_out>>
jtag_vars == <<current_ir_reg, jtag_pc, jtag_call, jtag_ret, jtag_log,
               ir_shifted, last_ok, n_access, jtag_idle_cycles, jtag_data>>
debug_vars == <<protocol, speed_khz, handle, probe_pc, probe_call, probe_ret,
                probe_log, swo_config>>
probe_vars == <<parse_vars, jtag_vars, debug_vars>>
vars == <<batch_vars, dap_vars, probe_vars>>

NoLocals ==
    [io_sequence |-> IoSequence_new, expected_responses |-> <<>>,
     result_indices |-> <<>>, num_transfers |-> 0, need_ap_read |-> FALSE,
     buffered_write |-> FALSE, write_response_pending |-> FALSE, wire |-> <<>>]

NoTwin == [transfers |-> <<>>, locals |-> NoLocals]

\* No call of perform_transfers or of DAPAccess has been made.
SwdIdle ==
    /\ pc = "idle"
    /\ transfers = <<>>
    /\ locals = NoLocals
    /\ result = <<>>
    /\ responses = <<>>
    /\ ret = "none"
    /\ twin = NoTwin
    /\ stack = <<>>
    /\ dap_ret = NoRet
    /\ n_bursts = 0
    /\ last_burst = NoBurst
    /\ heard = NothingHeard
    /\ target = [attempt |-> AttemptOutcomes, line_reset |-> LineResetOutcomes]

\* parse_swd_response has not been given anything.
NotParsing == [response |-> <<>>, direction |-> TypeRead]
NotParsed == [ok |-> FALSE, value |-> 0, err |-> "none"]
NotBuilding == [port |-> DebugPort, direction |-> TypeRead, address |-> 0]
NotBuilt == IoSequence_new
ParseIdle ==
    /\ parse_in = NotParsing
    /\ parse_out = NotParsed
    /\ codec_in = NotBuilding
    /\ codec_out = NotBuilt

\* A probe as JLink::new_from_selector made it: current_ir_reg: 1,
\* jtag_idle_cycles: 0
NoAddress == 0 - 1
JtagIdle ==
    /\ current_ir_reg = 1
    /\ jtag_pc = "idle"
    /\ jtag_call = [fn |-> "none", address |-> 0]
    /\ jtag_ret = "none"
    /\ jtag_log = <<>>
    /\ ir_shifted = NoAddress
    /\ last_ok = NoAddress
    /\ n_access = 0
    /\ jtag_idle_cycles = 0
    /\ jtag_data = <<>>

\* The J-Link behind the handle: its capabilities and interfaces, the
\* speeds it reports, and what has been programmed into it.
Handle(select_if, interfaces, base_freq, min_div) ==
    [select_if |-> select_if, interfaces |-> interfaces,
     base_freq |-> base_freq, min_div |-> min_div,
     interface |-> "Jtag", speed |-> NoAddress, swo |-> [state |-> "never started", baud |-> 0, buffer_size |-> 0]]

\* A J-Link with SELECT_IF, both interfaces, 48 MHz and a divider of 4.
UsualHandle == Handle(TRUE, {"Jtag", "Swd"}, [k |-> 48000, u |-> 0], 4)

NoProbeCall == [fn |-> "none"]
NoProbeRet == [status |-> "none", value |-> 0]

\* A probe as JLink::new_from_selector made it: protocol: None,
\* speed_khz: 0, swo_config: None
DebugIdle ==
    /\ protocol = "None"
    /\ speed_khz = 0
    /\ probe_pc = "idle"
    /\ probe_call = NoProbeCall
    /\ probe_ret = NoProbeRet
    /\ probe_log = <<>>
    /\ swo_config = [some |-> FALSE, baud |-> 0]

Init ==
    /\ SwdIdle
    /\ ParseIdle
    /\ JtagIdle
    /\ DebugIdle
    /\ handle = UsualHandle

\* perform_transfers(probe, transfers) up to its call of probe.swd_io
Call ==
    /\ pc = "idle"
    /\ \E batch \in Batches :
          /\ transfers' = batch
          /\ locals' = BuildSequence(batch)
    /\ pc' = "swd_io"
    /\ UNCHANGED <<result, responses, ret, twin, dap_vars, probe_vars>>

\* probe.swd_io(..) returned the sampled bits: parse them, retrieve the results
SwdIoOk ==
    /\ pc = "swd_io"
    /\ \E answers \in [1..Len(locals.wire) -> BatchAnswers] :
          LET bits == WireResponse(locals.wire, answers, 1)
              parsed == ParseResponses(bits, locals.expected_responses)
          IN  /\ result' = bits
              /\ responses' = parsed
              /\ transfers' = RetrieveResults(transfers, locals.result_indices, parsed)
    /\ ret' = "Ok"
    /\ pc' = "returned"
    /\ UNCHANGED <<locals, twin, dap_vars, probe_vars>>

\* probe.swd_io(..)? failed: the error is returned
SwdIoErr ==
    /\ pc = "swd_io"
    /\ ret' = "ProbeSpecific"
    /\ pc' = "returned"
    /\ UNCHANGED <<transfers, locals, result, responses, twin, dap_vars,
                   probe_vars>>

Next == Call \/ SwdIoOk \/ SwdIoErr

Spec == Init /\ [][Next]_vars

(***************************************************************************)
(* One DAPAccess call made from outside, step by step: every step is one   *)
(* swd_io call and the code that runs on its result up to the next one.    *)
(***************************************************************************)
Running == stack # <<>> /\ dap_ret = NoRet

\* A burst was handed to swd_io.
Submit(burst, class) ==
    /\ n_bursts' = IF n_bursts < BurstCap THEN n_bursts + 1 ELSE n_bursts
    /\ last_burst' = burst
    /\ heard' = Hear(heard, burst, class)

Resume(r) ==
    /\ stack' = r.stack
    /\ dap_ret' = r.ret

\* The call on top of the stack, its attempt counted.
Attempting == SetTop(stack, [Top(stack) EXCEPT !.attempts = @ + 1])

\* The call f as it was made.
AsCalled(f) == Frame(f.fn, f.port, f.address, f.value)

\* The attempts the target can answer to the call on top of the stack.
TopOutcomes == target.attempt[AsCalled(Top(stack))]

\* read_register(port, address) or write_register(port, address, value) is called
DapCall ==
    /\ stack = <<>>
    /\ dap_ret = NoRet
    /\ \E f \in DapCalls : stack' = <<f>>
    /\ UNCHANGED <<dap_ret, n_bursts, last_burst, heard, target, batch_vars, probe_vars>>

\* An attempt: perform_transfers(self, &mut transfers)? and the match on the
\* status, for the outcomes `wanted`.
Attempt(wanted) ==
    /\ Running
    /\ Top(stack).at = "attempt"
    /\ LoopRuns(Top(stack))
    /\ \E outcome \in TopOutcomes :
          /\ wanted[outcome.status]
          /\ Submit(TransferBurst(Top(stack), Len(stack), outcome.status,
                                  IF outcome.status = StatusOk
                                     /\ Top(stack).fn = "read_register"
                                  THEN outcome.value ELSE 0),
                    outcome.class)
          /\ Resume(AfterAttempt(Attempting, outcome))
    /\ UNCHANGED <<target, batch_vars, probe_vars>>

\* the attempt's status is Ok
AttemptOk == Attempt([s \in Statuses |-> s = StatusOk])

\* the attempt's status is Failed(WaitResponse)
AttemptWait == Attempt([s \in Statuses |-> s = Failed("WaitResponse")])

\* the attempt's status is Failed(FaultResponse)
AttemptFault == Attempt([s \in Statuses |-> s = Failed("FaultResponse")])

\* the attempt's status is Failed(_)
AttemptOther ==
    Attempt([s \in Statuses |->
                s \notin {StatusOk, Failed("WaitResponse"), Failed("FaultResponse")}])

\* perform_transfers(self, &mut transfers)? failed in swd_io
AttemptIoError ==
    /\ Running
    /\ Top(stack).at = "attempt"
    /\ LoopRuns(Top(stack))
    /\ Submit(TransferBurst(Top(stack), Len(stack), IoError, 0), "other")
    /\ Resume(Return(Attempting, ErrRet("ProbeSpecific")))
    /\ UNCHANGED <<target, batch_vars, probe_vars>>

\* the loop is over: Err(DebugProbeError::Timeout)
LoopExhausted ==
    /\ Running
    /\ Top(stack).at = "attempt"
    /\ ~LoopRuns(Top(stack))
    /\ Resume(Return(stack, ErrRet("Timeout")))
    /\ UNCHANGED <<n_bursts, last_burst, heard, target, batch_vars, probe_vars>>

\* The burst of swd_line_reset that is due.
ResetNth == IF Top(stack).at = "line_reset_1" THEN 1 ELSE 2

\* swd_line_reset: one burst and its parse
LineReset ==
    /\ Running
    /\ Top(stack).at \in {"line_reset_1", "line_reset_2"}
    /\ \E outcome \in target.line_reset :
          /\ Submit(LineResetBurst(Len(stack), ResetNth,
                                   IF outcome.ok THEN StatusOk
                                   ELSE Failed(outcome.err)),
                    outcome.class)
          /\ Resume(AfterLineReset(stack, outcome))
    /\ UNCHANGED <<target, batch_vars, probe_vars>>

\* swd_line_reset: self.swd_io(..)? failed
LineResetIoError ==
    /\ Running
    /\ Top(stack).at \in {"line_reset_1", "line_reset_2"}
    /\ Submit(LineResetBurst(Len(stack), ResetNth, IoError), "other")
    /\ Resume(Return(stack, ErrRet("ProbeSpecific")))
    /\ UNCHANGED <<target, batch_vars, probe_vars>>

NextDap ==
    \/ DapCall
    \/ AttemptOk
    \/ AttemptWait
    \/ AttemptFault
    \/ AttemptOther
    \/ AttemptIoError
    \/ LoopExhausted
    \/ LineReset
    \/ LineResetIoError

SpecDap == Init /\ [][NextDap]_vars

(***************************************************************************)
(* Vocabulary of the properties: what a transfer or a frame on the wire    *)
(* is, and where a frame lies in the burst.                                *)
(***************************************************************************)
IsApRead(t) == t.port.type = "AccessPort" /\ t.direction = "Read"
IsApWrite(t) == t.port.type = "AccessPort" /\ t.direction = "Write"
IsDpRead(t) == t.port.type = "DebugPort" /\ t.direction = "Read"
IsWrite(t) == t.direction = "Write"
\* a DP write to Abort, a DP read of DPIDR or a DP read of CTRL/STAT
IsUnstallable(t) ==
    /\ t.port.type = "DebugPort"
    /\ \/ t.direction = "Write" /\ t.address = Abort_ADDRESS
       \/ t.direction = "Read" /\ t.address \in {DPIDR_ADDRESS, Ctrl_ADDRESS}

\* a frame of the wire log as a transfer
FrameTransfer(f) == [port |-> f.port, direction |-> f.kind, address |-> f.address]
FrameIsRdBuffRead(f) ==
    f.port = DebugPort /\ f.kind = "Read" /\ f.address = RdBuff_ADDRESS
FrameIsAux(f) == f.src = 0

\* the 0-based number of the frame of the caller's k-th transfer
OwnFrame(wire, k) == (CHOOSE i \in 1..Len(wire) : wire[i].src = k) - 1
\* the bit offset in the burst of the frame with 0-based number f
RECURSIVE FrameOffset(_, _)
FrameOffset(wire, f) ==
    IF f = 0 THEN 0
    ELSE FrameOffset(wire, f - 1) + 48 + (IF wire[f].idle THEN 16 ELSE 0)
\* the frame a transfer's result is read from: the next one for an AP read
\* and for a write, its own for a DP read
ResultFrame(wire, k, t) ==
    IF IsApRead(t) \/ IsWrite(t) THEN OwnFrame(wire, k) + 1 ELSE OwnFrame(wire, k)

Count(S) == Cardinality(S)

(***************************************************************************)
(* C1: perform_transfers emits exactly len(transfers) + aux frames, where  *)
(* aux counts one RDBUFF read before each transfer that is not an AP read  *)
(* and follows an AP read, one before each Abort write / DPIDR read /      *)
(* CTRL/STAT read that follows an AP write, and one trailing RDBUFF read   *)
(* when the last transfer is an AP read or a write.  Every auxiliary frame *)
(* is a DP read of RDBUFF, the burst is 48 bits per frame plus 16 per      *)
(* write, and a batch of one DP read is one 48-bit frame.                  *)
(***************************************************************************)
C1_Aux(ts) ==
    LET n == Len(ts)
    IN  Count({k \in 2..n : ~IsApRead(ts[k]) /\ IsApRead(ts[k - 1])})
        + Count({k \in 2..n : IsUnstallable(ts[k]) /\ IsApWrite(ts[k - 1])})
        + (IF IsApRead(ts[n]) \/ IsWrite(ts[n]) THEN 1 ELSE 0)

C1_FrameCount ==
    pc # "idle" =>
        LET n == Len(transfers)
            wire == locals.wire
        IN  /\ Len(wire) = n + C1_Aux(transfers)
            /\ Count({i \in 1..Len(wire) : ~FrameIsAux(wire[i])}) = n
            /\ \A i \in 1..Len(wire) : FrameIsAux(wire[i]) => FrameIsRdBuffRead(wire[i])
            /\ Len(locals.io_sequence.io)
                 = 48 * Len(wire) + 16 * Count({k \in 1..n : IsWrite(transfers[k])})
            /\ (n = 1 /\ IsDpRead(transfers[1])) => Len(locals.io_sequence.io) = 48

\* an AP write followed by an Abort write: drain, the two frames, trailing read
C1_Witness ==
    /\ pc = "swd_io"
    /\ Len(transfers) = 2
    /\ IsApWrite(transfers[1])
    /\ IsUnstallable(transfers[2]) /\ IsWrite(transfers[2])
    /\ Len(locals.wire) = 4

(***************************************************************************)
(* C2: the result of an AP read or of a write is taken from the frame      *)
(* after its own, that of a DP read from its own frame: the transfer ends  *)
(* Ok when that frame parsed Ok (a read's value being the 32 data bits of  *)
(* that frame), and Failed with that frame's error otherwise.              *)
(***************************************************************************)
C2_ResultMapping ==
    (pc = "returned" /\ ret = "Ok") =>
        \A k \in 1..Len(transfers) :
            LET t == transfers[k]
                r == ResultFrame(locals.wire, k, t)
                response == At(responses, r)
                data == FrameOffset(locals.wire, r) + 13
            IN  /\ r < Len(locals.wire)
                /\ response.ok => t.status = StatusOk
                /\ ~response.ok => t.status = Failed(response.err)
                /\ (response.ok /\ t.direction = "Read") =>
                       /\ t.value = response.value
                       /\ Bits32(t.value) = Slice(result, data, data + 32)

\* an AP read whose own frame was answered WAIT and whose next frame OK
C2_Witness ==
    /\ pc = "returned" /\ ret = "Ok"
    /\ \E k \in 1..Len(transfers) :
          /\ IsApRead(transfers[k])
          /\ ~At(responses, OwnFrame(locals.wire, k)).ok
          /\ transfers[k].status = StatusOk
          /\ transfers[k].value = RegisterValue

C4_NonePending ==
    (pc = "returned" /\ ret = "Ok") =>
        \A k \in 1..Len(transfers) :
            /\ transfers[k].status.tag \in {"Ok", "Failed"}
            /\ transfers[k].status # Pending

\* a batch that came back with one transfer Ok and one Failed
C4_Witness ==
    /\ pc = "returned" /\ ret = "Ok"
    /\ \E k \in 1..Len(transfers) : transfers[k].status = StatusOk
    /\ \E k \in 1..Len(transfers) : transfers[k].status.tag = "Failed"

(***************************************************************************)
(* C5: the frames of the caller's transfers are in the burst in caller     *)
(* order, auxiliary frames only between or after them, and the frame each  *)
(* transfer's result is read from is non-decreasing in caller order.       *)
(***************************************************************************)
C5_CallerOrder ==
    pc # "idle" =>
        LET wire == locals.wire
            n == Len(transfers)
        IN  /\ wire[1].src = 1
            /\ \A k \in 1..n : \E i \in 1..Len(wire) : wire[i].src = k
            /\ \A i, j \in 1..Len(wire) :
                   (i < j /\ wire[i].src # 0 /\ wire[j].src # 0)
                       => wire[i].src < wire[j].src
            /\ \A i \in 1..Len(wire) :
                   wire[i].src # 0 =>
                       /\ wire[i].src \in 1..n
                       /\ FrameTransfer(wire[i])
                            = [port |-> transfers[wire[i].src].port,
                               direction |-> transfers[wire[i].src].direction,
                               address |-> transfers[wire[i].src].address]
            /\ Len(locals.result_indices) = n
            /\ \A k \in 1..(n - 1) :
                   locals.result_indices[k] <= locals.result_indices[k + 1]

\* an auxiliary frame between the frames of two caller transfers
C5_Witness ==
    /\ pc = "swd_io"
    /\ Len(transfers) = 2
    /\ Len(locals.wire) >= 3
    /\ locals.wire[1].src = 1 /\ locals.wire[2].src = 0 /\ locals.wire[3].src = 2

(***************************************************************************)
(* Vocabulary of the properties of the retry loop.                         *)
(***************************************************************************)
\* f is the call write_register(DebugPort, Abort::ADDRESS, value)
IsAbortWrite(f, value) ==
    AsCalled(f) = Frame("write_register", DebugPort, Abort_ADDRESS, value)

\* f is the call read_register(DebugPort, Ctrl::ADDRESS)
IsCtrlRead(f) ==
    AsCalled(f) = Frame("read_register", DebugPort, Ctrl_ADDRESS, 0)

\* f has just been called: no attempt made yet
IsFresh(f) == f = AsCalled(f)

\* The burst b carried the transfer of the call f.
BurstOf(b, f) ==
    /\ b.kind = "transfer"
    /\ b.port = f.port
    /\ b.address = f.address
    /\ b.direction = FrameTransfers(f)[1].direction
    /\ b.value = FrameTransfers(f)[1].value

\* The statuses the loop answers with a line reset.
ProtocolFailures ==
    { Failed("NoAcknowledge"), Failed("SwdProtocol"), Failed("IncorrectParity") }

\* This step handed a burst to swd_io.
BurstStep == last_burst' # last_burst

\* This step is a transfer burst of the call on top of the stack that ended
\* with `status`.
AttemptStep(status) ==
    /\ BurstStep
    /\ last_burst'.kind = "transfer"
    /\ last_burst'.status = status

\* The call stack[i] waits at `at` for a call it made, and in this step it
\* gets the result or is unwound.
NestedCallEnds(i, at) ==
    /\ i \in 1..Len(stack)
    /\ stack[i].at = at
    /\ Len(stack') < i \/ stack'[i].at # at

\* The call stack[i] goes on with its next iteration.
Continues(i) ==
    /\ Len(stack') = i
    /\ stack'[i] = [stack[i] EXCEPT !.at = "attempt", !.retry = @ + 1]

\* The call stack[i] is unwound in this step with an error.
Unwinds(i) ==
    /\ Len(stack') < i
    /\ stack' = <<>> => dap_ret'.tag = "Err"

(***************************************************************************)
(* C6: every read_register and write_register call terminates whatever the *)
(* target answers: it never runs out of stack, no call attempts its        *)
(* transfer more than 20 times, and a call whose loop is over has made     *)
(* its 20 attempts.                                                        *)
(***************************************************************************)
C6_TerminatesWithin20 ==
    /\ dap_ret # StackOverflow
    /\ \A i \in 1..Len(stack) :
          /\ stack[i].attempts <= dap_wait_retries
          /\ ~LoopRuns(stack[i]) => stack[i].attempts = dap_wait_retries

(***************************************************************************)
(* C7 as written: no call has more than 20 bursts handed to swd_io while   *)
(* it is running.                                                          *)
(***************************************************************************)
C7_AtMost20Bursts == n_bursts <= dap_wait_retries

(***************************************************************************)
(* C7: no call hands more than 20 bursts that carry its own transfer to    *)
(* swd_io; the bursts of its recovery come on top of these.                *)
(***************************************************************************)
C7_AtMost20OwnBursts ==
    \A i \in 1..Len(stack) : stack[i].attempts <= dap_wait_retries

\* A call has made its 20 attempts and more than 20 bursts were submitted.
C7_Witness ==
    /\ stack # <<>>
    /\ stack[1].attempts = dap_wait_retries
    /\ n_bursts > dap_wait_retries

(***************************************************************************)
(* WaitResponse.                                                           *)
(***************************************************************************)
\* Right after an attempt ended in WaitResponse the call waits for a fresh
\* write_register(DebugPort, Abort, ORUNERRCLR alone); a call waits at that
\* place for nothing else.
C8_AbortIsWritten ==
    /\ \A i \in 1..Len(stack) :
          stack[i].at = "wait_abort" =>
             /\ i < Len(stack)
             /\ IsAbortWrite(stack[i + 1], Abort(TRUE, FALSE))
    /\ ( /\ dap_ret = NoRet
         /\ last_burst.kind = "transfer"
         /\ last_burst.status = Failed("WaitResponse") ) =>
            /\ Len(stack) = last_burst.depth + 1
            /\ IsFresh(Top(stack))
            /\ stack[last_burst.depth].at = "wait_abort"
            /\ BurstOf(last_burst, stack[last_burst.depth])

\* The burst after an attempt that ended in WaitResponse writes
\* ORUNERRCLR alone to DP Abort.
C8_AbortFollows ==
    ( /\ last_burst.kind = "transfer"
      /\ last_burst.status = Failed("WaitResponse")
      /\ BurstStep ) =>
         /\ last_burst'.kind = "transfer"
         /\ last_burst'.port = DebugPort
         /\ last_burst'.direction = "Write"
         /\ last_burst'.address = Abort_ADDRESS
         /\ last_burst'.value = 16

\* The first burst answered WAIT and every later one OK: the bursts are the
\* failed transfer, the Abort write and the transfer again, which returns Ok.
C8_WaitThenOk ==
    heard.script = "wait_then_ok" =>
       /\ Len(heard.bursts) <= 3
       /\ Len(heard.bursts) = n_bursts
       /\ Len(heard.bursts) < 3 => dap_ret = NoRet
       /\ Len(heard.bursts) >= 2 =>
             /\ heard.bursts[2].port = DebugPort
             /\ heard.bursts[2].direction = "Write"
             /\ heard.bursts[2].address = Abort_ADDRESS
             /\ heard.bursts[2].value = 16
       /\ Len(heard.bursts) = 3 =>
             /\ dap_ret.tag = "Ok"
             /\ stack = <<>>
             /\ heard.bursts[1].status = Failed("WaitResponse")
             /\ heard.bursts[3].status = StatusOk
             /\ \A field \in {"kind", "port", "direction", "address", "value"} :
                   heard.bursts[3][field] = heard.bursts[1][field]

\* As written: once the Abort write is over the call attempts its transfer
\* again.
C8_AlwaysAttemptsAgain ==
    \A i \in 1..Len(stack) :
        NestedCallEnds(i, "wait_abort") =>
           /\ Continues(i)
           /\ LoopRuns(stack'[i])

\* Once the Abort write is over: if it returned Ok the call goes on with
\* the next iteration of its loop, and attempts the same transfer again
\* when there is one; if not, the call returns the error.
C8_AttemptsAgainIfItCan ==
    \A i \in 1..Len(stack) :
        NestedCallEnds(i, "wait_abort") =>
           IF AttemptStep(StatusOk) /\ Len(stack) = i + 1
           THEN Continues(i)
           ELSE Unwinds(i)

\* A burst of a transfer is the transfer of the call on top of the stack,
\* which is in its loop.
C8_AttemptIsOwnTransfer ==
    (BurstStep /\ last_burst'.kind = "transfer") =>
       /\ stack # <<>>
       /\ BurstOf(last_burst', Top(stack))
       /\ Top(stack).at = "attempt"
       /\ LoopRuns(Top(stack))

(***************************************************************************)
(* C8 as written: when an attempt fails with WaitResponse the loop writes  *)
(* DP Abort with only ORUNERRCLR set and then attempts the same transfer   *)
(* again; a first burst answered WAIT and every later burst answered OK    *)
(* give Ok after exactly 3 bursts.                                         *)
(***************************************************************************)
C8_WaitRetries ==
    /\ [](C8_AbortIsWritten /\ C8_WaitThenOk)
    /\ [][C8_AbortFollows /\ C8_AttemptIsOwnTransfer /\ C8_AlwaysAttemptsAgain]_vars

(***************************************************************************)
(* C8: when an attempt fails with WaitResponse the loop writes DP Abort    *)
(* with only ORUNERRCLR set; if that write returns Ok the loop goes on,    *)
(* attempting the same transfer again unless that was the 20th attempt,    *)
(* and if it returns an error the call returns that error.  A first burst  *)
(* answered WAIT and every later burst answered OK give Ok after exactly   *)
(* 3 bursts.                                                               *)
(***************************************************************************)
C8_WaitRetriesIfItCan ==
    /\ [](C8_AbortIsWritten /\ C8_WaitThenOk)
    /\ [][C8_AbortFollows /\ C8_AttemptIsOwnTransfer /\ C8_AttemptsAgainIfItCan]_vars

\* The failed transfer, the Abort write and the transfer again were heard
\* and the call returned Ok.
C8_Witness ==
    /\ heard.script = "wait_then_ok"
    /\ Len(heard.bursts) = 3
    /\ dap_ret.tag = "Ok"

(***************************************************************************)
(* FaultResponse.                                                          *)
(***************************************************************************)
\* Right after an attempt ended in FaultResponse the call waits for a fresh
\* read_register(DebugPort, Ctrl); a call that waits for the Abort write of
\* its fault handling waits for one that clears a sticky flag.
C9_CtrlIsRead ==
    /\ \A i \in 1..Len(stack) :
          /\ stack[i].at = "fault_ctrl" =>
                i < Len(stack) /\ IsCtrlRead(stack[i + 1])
          /\ stack[i].at = "fault_abort" =>
                /\ i < Len(stack)
                /\ \E orun, err \in BOOLEAN :
                      /\ orun \/ err
                      /\ IsAbortWrite(stack[i + 1], Abort(orun, err))
    /\ ( /\ dap_ret = NoRet
         /\ last_burst.kind = "transfer"
         /\ last_burst.status = Failed("FaultResponse") ) =>
            /\ Len(stack) = last_burst.depth + 1
            /\ IsFresh(Top(stack))
            /\ stack[last_burst.depth].at = "fault_ctrl"
            /\ BurstOf(last_burst, stack[last_burst.depth])

\* The read of CTRL/STAT returned Ok in this step: Abort is written, with
\* ORUNERRCLR = STICKYORUN and STKERRCLR = STICKYERR, iff a sticky flag is
\* set; if none is, the call is over.
C9_AbortClearsStickyFlags ==
    \A i \in 1..Len(stack) :
        ( /\ stack[i].at = "fault_ctrl"
          /\ Len(stack) = i + 1
          /\ AttemptStep(StatusOk) ) =>
             LET ctrl == last_burst'.data
                 STICKYORUN == (ctrl \div 2) % 2 = 1
                 STICKYERR == (ctrl \div 32) % 2 = 1
                 abort == (IF STICKYORUN THEN 16 ELSE 0)
                          + (IF STICKYERR THEN 4 ELSE 0)
             IN  IF STICKYORUN \/ STICKYERR
                 THEN /\ Len(stack') = i + 1
                      /\ stack'[i] = [stack[i] EXCEPT !.at = "fault_abort"]
                      /\ IsAbortWrite(stack'[i + 1], abort)
                      /\ IsFresh(stack'[i + 1])
                 ELSE Len(stack') < i

\* A call that handles a fault never attempts its transfer again.
C9_NeverAttemptsAgain ==
    \A i \in 1..Len(stack) :
        stack[i].at \in {"fault_ctrl", "fault_abort"} =>
           \/ Len(stack') < i
           \/ /\ stack'[i].at \in {"fault_ctrl", "fault_abort"}
              /\ stack'[i].attempts = stack[i].attempts

\* As written: the call that handled a fault returns FaultResponse.
C9_AlwaysReturnsFault ==
    ( /\ stack # <<>>
      /\ stack[1].at \in {"fault_ctrl", "fault_abort"}
      /\ stack' = <<>> ) =>
         dap_ret' = ErrRet("FaultResponse")

\* The call that handled a fault returns FaultResponse when the read of
\* CTRL/STAT and the Abort write, if there is one, returned Ok; if not, it
\* returns their error.
C9_ReturnsFaultOrNestedError ==
    ( /\ stack # <<>>
      /\ stack[1].at \in {"fault_ctrl", "fault_abort"}
      /\ stack' = <<>> ) =>
         /\ dap_ret'.tag = "Err"
         /\ (AttemptStep(StatusOk) /\ Len(stack) = 2) =>
               dap_ret' = ErrRet("FaultResponse")
         /\ dap_ret'.err # "FaultResponse" =>
               \/ ~BurstStep
               \/ last_burst'.status # StatusOk

(***************************************************************************)
(* C9 as written: when an attempt fails with FaultResponse the loop reads  *)
(* DP CTRL/STAT, writes Abort with ORUNERRCLR = STICKYORUN and STKERRCLR = *)
(* STICKYERR iff a sticky flag is set, never attempts the transfer again   *)
(* and returns FaultResponse.                                              *)
(***************************************************************************)
C9_FaultReturnsFault ==
    /\ []C9_CtrlIsRead
    /\ [][C9_AbortClearsStickyFlags /\ C9_NeverAttemptsAgain
          /\ C9_AlwaysReturnsFault]_vars

(***************************************************************************)
(* C9: when an attempt fails with FaultResponse the loop reads DP          *)
(* CTRL/STAT; if the read returns Ok it writes Abort with ORUNERRCLR =     *)
(* STICKYORUN and STKERRCLR = STICKYERR iff a sticky flag is set; it never *)
(* attempts the transfer again; it returns FaultResponse, or the error of  *)
(* the CTRL/STAT read or of the Abort write if one of them failed.         *)
(***************************************************************************)
C9_FaultReturnsFaultOrNestedError ==
    /\ []C9_CtrlIsRead
    /\ [][C9_AbortClearsStickyFlags /\ C9_NeverAttemptsAgain
          /\ C9_ReturnsFaultOrNestedError]_vars

\* A fault, CTRL/STAT read with both sticky flags set, both cleared by the
\* Abort write, FaultResponse returned.
C9_Witness ==
    /\ dap_ret = ErrRet("FaultResponse")
    /\ last_burst.kind = "transfer"
    /\ last_burst.depth = 2
    /\ last_burst.address = Abort_ADDRESS
    /\ last_burst.direction = "Write"
    /\ last_burst.value = 20
    /\ last_burst.status = StatusOk

(***************************************************************************)
(* NoAcknowledge, SwdProtocol, IncorrectParity.                            *)
(***************************************************************************)
\* Right after an attempt ended in one of the three the call is in its
\* line reset.
C10_LineResetIsDue ==
    ( /\ dap_ret = NoRet
      /\ last_burst.kind = "transfer"
      /\ last_burst.status \in ProtocolFailures ) =>
         /\ Len(stack) = last_burst.depth
         /\ Top(stack).at = "line_reset_1"
         /\ BurstOf(last_burst, Top(stack))

\* The burst after such an attempt is the first of a line reset, and the
\* burst after a first one that did not read DPIDR is the second.
C10_LineResetFollows ==
    /\ ( /\ last_burst.kind = "transfer"
         /\ last_burst.status \in ProtocolFailures
         /\ BurstStep ) =>
            last_burst'.kind = "line_reset" /\ last_burst'.nth = 1
    /\ ( /\ last_burst.kind = "line_reset"
         /\ last_burst.nth = 1
         /\ last_burst.status \notin {StatusOk, IoError}
         /\ BurstStep ) =>
            last_burst'.kind = "line_reset" /\ last_burst'.nth = 2

\* A burst of a line reset is by the call on top of the stack; if it read
\* DPIDR the call goes on with the next iteration of its loop.
C10_AttemptsAgainAfterReset ==
    (BurstStep /\ last_burst'.kind = "line_reset") =>
       /\ stack # <<>>
       /\ Top(stack).at \in {"line_reset_1", "line_reset_2"}
       /\ last_burst'.status = StatusOk => Continues(Len(stack))
       /\ (last_burst'.status # StatusOk /\ last_burst'.nth = 2) =>
             Unwinds(Len(stack))

\* As written: the caller sees Ok, FaultResponse, Timeout or a transport
\* error.
C10_Absorbed ==
    dap_ret.tag = "Err" =>
       dap_ret.err \in {"FaultResponse", "Timeout", "ProbeSpecific"}

\* The caller sees Ok, FaultResponse, Timeout, a transport error, or the
\* error of the second burst of a line reset.
C10_AbsorbedUnlessResetFails ==
    ( /\ dap_ret.tag = "Err"
      /\ dap_ret.err \notin {"FaultResponse", "Timeout", "ProbeSpecific"} ) =>
         /\ last_burst.kind = "line_reset"
         /\ last_burst.nth = 2
         /\ last_burst.status = Failed(dap_ret.err)

(***************************************************************************)
(* C10 as written: when an attempt fails with NoAcknowledge, SwdProtocol   *)
(* or IncorrectParity the loop performs a line reset and attempts the      *)
(* transfer again; the caller never receives these errors, only Ok,        *)
(* FaultResponse, Timeout or a transport error.                            *)
(***************************************************************************)
C10_ProtocolErrorsAbsorbed ==
    /\ [](C10_LineResetIsDue /\ C10_Absorbed)
    /\ [][C10_LineResetFollows /\ C10_AttemptsAgainAfterReset]_vars

(***************************************************************************)
(* C10: when an attempt fails with NoAcknowledge, SwdProtocol or           *)
(* IncorrectParity the loop performs a line reset; if one of its two       *)
(* bursts reads DPIDR the loop goes on, and if neither does the call       *)
(* returns the error of the second.  The caller sees Ok, FaultResponse,    *)
(* Timeout, a transport error or the error of a failed line reset.         *)
(***************************************************************************)
C10_ProtocolErrorsAbsorbedUnlessResetFails ==
    /\ [](C10_LineResetIsDue /\ C10_AbsorbedUnlessResetFails)
    /\ [][C10_LineResetFollows /\ C10_AttemptsAgainAfterReset]_vars

\* The first burst of a line reset failed, the second read DPIDR, and the
\* call is about to attempt its transfer again.
C10_Witness ==
    /\ Running
    /\ Top(stack).at = "attempt"
    /\ Top(stack).retry = 1
    /\ LoopRuns(Top(stack))
    /\ last_burst.kind = "line_reset"
    /\ last_burst.nth = 2
    /\ last_burst.status = StatusOk

(***************************************************************************)
(* parse_swd_response on its own, over sampled frames of every             *)
(* acknowledgement, with and without matching parity.                      *)
(***************************************************************************)
\* The three sampled ACK bits, every pattern.
ParseAcks == { <<a, b, c>> : a \in BOOLEAN, b \in BOOLEAN, c \in BOOLEAN }

\* The data words sampled.
ParseData == {0, 1, RegisterValue, 2147483647}

\* The sampled bits of one frame: the ten bits of the idle and request
\* phase, the ACK, and then the data and parity where the direction has them.
RawResponse(lead, ack, data, parity_bit, direction) ==
    IF direction.kind = "Read"
    THEN Repeat(lead, 10) \o ack \o Bits32(data) \o <<parity_bit, lead, lead>>
    ELSE Repeat(lead, 10) \o ack \o <<lead, lead>> \o Bits32(data) \o <<parity_bit>>

ParseInputs ==
    { [response |-> RawResponse(lead, ack, data, parity_bit, direction),
       direction |-> direction] :
         lead \in BOOLEAN, ack \in ParseAcks, data \in ParseData,
         parity_bit \in BOOLEAN, direction \in {TypeRead, TypeWrite(WriteValue)} }

InitParse ==
    /\ SwdIdle
    /\ JtagIdle
    /\ DebugIdle
    /\ handle = UsualHandle
    /\ parse_in \in ParseInputs
    /\ parse_out = NotParsed
    /\ codec_in = NotBuilding
    /\ codec_out = NotBuilt

\* parse_swd_response(response, direction)
Parse ==
    /\ parse_out = NotParsed
    /\ parse_out' = parse_swd_response(parse_in.response, parse_in.direction)
    /\ UNCHANGED <<parse_in, codec_in, codec_out, batch_vars, dap_vars,
                   jtag_vars, debug_vars>>

NextParse == Parse

SpecParse == InitParse /\ [][NextParse]_vars

\* Bit n of the frame parse_swd_response was given, counted from 0.
FrameBit(n) == parse_in.response[n + 1]

\* The ACK bits of that frame, in sampled order, as 0 and 1.
FrameAck == [i \in 1..3 |-> IF FrameBit(9 + i) THEN 1 ELSE 0]

\* What the ACK was taken for: an OK ACK is followed by the check of the
\* data, every other ACK is the error returned.
DecodedAck ==
    IF parse_out.ok \/ parse_out.err = "IncorrectParity" THEN "Ok"
    ELSE parse_out.err

(***************************************************************************)
(* C11: the ACK bits {1,0,0} are decoded as Ok, {0,1,0} as WaitResponse,   *)
(* {0,0,1} as FaultResponse, {1,1,1} as NoAcknowledge, and each of         *)
(* {0,0,0}, {1,1,0}, {1,0,1}, {0,1,1} as SwdProtocol.                      *)
(***************************************************************************)
C11_AckDecoding ==
    parse_out # NotParsed =>
       DecodedAck =
          CASE FrameAck = <<1, 0, 0>> -> "Ok"
            [] FrameAck = <<0, 1, 0>> -> "WaitResponse"
            [] FrameAck = <<0, 0, 1>> -> "FaultResponse"
            [] FrameAck = <<1, 1, 1>> -> "NoAcknowledge"
            [] OTHER -> "SwdProtocol"

\* The parity of the 32 data bits of a Read frame, bits 13..44.
FrameDataOdd == Cardinality({n \in 13..44 : FrameBit(n)}) % 2 = 1

(***************************************************************************)
(* C12: for a Read frame Ok(v) is returned only if the ACK is OK and frame *)
(* bit 45 equals popcount(v) mod 2, v being frame bits 13..44 read LSB     *)
(* first; an OK ACK with the other parity bit gives IncorrectParity.  For  *)
(* a Write frame an OK ACK gives Ok(0) whatever the data and parity bits.  *)
(***************************************************************************)
C12_ReadParity ==
    parse_out # NotParsed =>
       IF parse_in.direction.kind = "Read"
       THEN /\ parse_out.ok =>
                 /\ FrameAck = <<1, 0, 0>>
                 /\ \A n \in 0..31 : BitOf(parse_out.value, n) = FrameBit(13 + n)
                 /\ FrameBit(45) = (count_ones(parse_out.value) % 2 = 1)
                 /\ FrameBit(45) = FrameDataOdd
            /\ (FrameAck = <<1, 0, 0>> /\ FrameBit(45) # FrameDataOdd) =>
                 parse_out = Err("IncorrectParity")
       ELSE FrameAck = <<1, 0, 0>> => parse_out = Ok(0)

\* A Read frame with an OK ACK, a data word of ones and zeros and its
\* parity was parsed to that word.
C12_Witness ==
    /\ parse_in.direction.kind = "Read"
    /\ parse_out = Ok(RegisterValue)

(***************************************************************************)
(* JTAGAccess::read_register and write_register: the IR write when the     *)
(* address is not the one current_ir_reg holds, then the DR access.  Every *)
(* step is one jtag_io call and the code that runs on its result.          *)
(***************************************************************************)
\* The addresses the calls are made with: every 5-bit one and some above.
JtagAddresses == (0..31) \cup {32, 33, 257}

\* address.to_le_bytes()[..1]
address_bits(address) == << address % 256 >>

\* write_ir: tms = enter IR shift, len - 1 zeros, enter idle
write_ir_tms(len) ==
    <<TRUE, TRUE, FALSE, FALSE>> \o Repeat(FALSE, len - 1) \o <<TRUE, TRUE, FALSE>>

\* write_ir: tdi = four zeros, the len low bits of data LSB first, two zeros
write_ir_tdi(data, len) ==
    Repeat(FALSE, 4)
    \o [i \in 1..len |-> BitOf(data[((i - 1) \div 8) + 1], (i - 1) % 8)]
    \o <<FALSE, FALSE>>

\* The value the bits of an IR write shift into the instruction register:
\* the bits between the four leading and the two trailing ones, LSB first.
ShiftedIr(tdi) == bits_to_byte(SubSeq(tdi, 5, Len(tdi) - 2))

\* Mutant: any address that fits the one byte handed to write_ir passes.
address_fits_Byte(address) == address <= 255

\* if address > 0x1f { return Err(NotImplemented) }
address_fits(address) == address <= 31

\* Mutant: the IR is written before every access.
needs_write_ir_Always(address) == TRUE

\* Mutant: the IR is never written.
needs_write_ir_Never(address) == FALSE

\* if self.current_ir_reg != address { self.write_ir(..)? }
needs_write_ir(address) == current_ir_reg # address

\* A JTAGAccess call ends.
JtagReturn(r) ==
    /\ jtag_ret' = r
    /\ jtag_pc' = "idle"

\* read_register(address, len) or write_register(address, data, len) is
\* called: the check of the address and of current_ir_reg
JtagCallWith(addresses) ==
    /\ jtag_pc = "idle"
    /\ \E fn \in {"read_register", "write_register"}, address \in addresses :
          /\ jtag_call' = [fn |-> fn, address |-> address]
          /\ IF ~address_fits(address)
             THEN JtagReturn("NotImplemented")
             ELSE /\ jtag_pc' = IF needs_write_ir(address) THEN "write_ir" ELSE "dr"
                  /\ jtag_ret' = "none"
    /\ jtag_log' = <<>>
    /\ last_ok' = IF jtag_ret = "Ok" THEN jtag_call.address ELSE NoAddress
    /\ n_access' = IF n_access < 2 THEN n_access + 1 ELSE n_access
    /\ UNCHANGED <<current_ir_reg, ir_shifted, jtag_idle_cycles, jtag_data,
                   batch_vars, dap_vars, parse_vars, debug_vars>>

JtagCall == JtagCallWith(JtagAddresses)

\* Mutant: current_ir_reg is set before jtag_io is called.
write_ir_done_Early(data, len, io_ok) ==
    IF len >= 8 /\ io_ok THEN [ok |-> FALSE, ir |-> current_ir_reg]
    ELSE [ok |-> io_ok, ir |-> data[1]]

\* write_ir after self.handle.jtag_io(tms, tdi): whether it returns Ok, and
\* current_ir_reg afterwards
write_ir_done(data, len, io_ok) ==
    IF ~io_ok THEN [ok |-> FALSE, ir |-> current_ir_reg]
    ELSE IF len >= 8 THEN [ok |-> FALSE, ir |-> current_ir_reg]
    ELSE [ok |-> TRUE, ir |-> data[1]]

\* self.write_ir(&address_bits[..1], 5)?: its jtag_io succeeds or fails
WriteIr ==
    /\ jtag_pc = "write_ir"
    /\ \E io_ok \in BOOLEAN :
          LET data == address_bits(jtag_call.address)
              tdi == write_ir_tdi(data, 5)
              done == write_ir_done(data, 5, io_ok)
          IN  /\ jtag_log' = Append(jtag_log, [op |-> "ir", tms |-> write_ir_tms(5),
                                                tdi |-> tdi, ok |-> io_ok])
              /\ ir_shifted' = IF io_ok THEN ShiftedIr(tdi) ELSE ir_shifted
              /\ current_ir_reg' = done.ir
              /\ IF done.ok
                 THEN jtag_pc' = "dr" /\ jtag_ret' = jtag_ret
                 ELSE JtagReturn(IF io_ok THEN "NotImplemented" ELSE "ProbeSpecific")
    /\ UNCHANGED <<jtag_call, last_ok, n_access, jtag_idle_cycles, jtag_data,
                   batch_vars, dap_vars, parse_vars, debug_vars>>

\* self.read_dr(len) or self.write_dr(data, len): its jtag_io succeeds or fails
DrAccess ==
    /\ jtag_pc = "dr"
    /\ \E io_ok \in BOOLEAN :
          /\ jtag_log' = Append(jtag_log, [op |-> "dr", tms |-> <<>>, tdi |-> <<>>,
                                           ok |-> io_ok])
          /\ JtagReturn(IF io_ok THEN "Ok" ELSE "ProbeSpecific")
    /\ UNCHANGED <<current_ir_reg, jtag_call, ir_shifted, last_ok, n_access,
                   jtag_idle_cycles, jtag_data, batch_vars, dap_vars, parse_vars,
                   debug_vars>>

NextJtag == JtagCall \/ WriteIr \/ DrAccess

SpecJtag == Init /\ [][NextJtag]_vars

(***************************************************************************)
(* Vocabulary of the JTAG properties.                                      *)
(***************************************************************************)
\* The jtag_io calls of the access that were IR writes, DR accesses.
IrWrites == { i \in 1..Len(jtag_log) : jtag_log[i].op = "ir" }
DrAccesses == { i \in 1..Len(jtag_log) : jtag_log[i].op = "dr" }

\* This step is the call of read_register or write_register.
JtagCallStep == jtag_pc = "idle" /\ n_access' # 0 /\ jtag_log' = <<>>
                /\ (jtag_pc' # "idle" \/ jtag_ret' = "NotImplemented")

\* The access is past its check of current_ir_reg and of the IR.
AccessWithoutIrWrite == jtag_pc # "write_ir" /\ IrWrites = {}

\* The jtag_io calls of an access: at most one IR write, first; at most one
\* DR access, last, and none after an IR write that failed.
C13_IrBeforeDr ==
    /\ Len(jtag_log) <= 2
    /\ Cardinality(IrWrites) <= 1
    /\ Cardinality(DrAccesses) <= 1
    /\ IrWrites # {} => 1 \in IrWrites
    /\ jtag_pc = "write_ir" => jtag_log = <<>>
    /\ jtag_pc = "dr" => DrAccesses = {}
    /\ jtag_ret = "Ok" => DrAccesses # {}

\* The call goes on to write the IR exactly when the address is not the
\* one current_ir_reg holds, and to the DR access directly when it is.
C13_IrWhenAddressDiffers ==
    (JtagCallStep /\ jtag_call'.address <= 31) =>
       /\ (jtag_pc' = "write_ir") = (jtag_call'.address # current_ir_reg)
       /\ (jtag_pc' = "dr") = (jtag_call'.address = current_ir_reg)

\* The access after a successful one to the same address writes no IR.
C13_NoIrWriteForSameAddress ==
    (last_ok = jtag_call.address /\ n_access >= 2) => AccessWithoutIrWrite

(***************************************************************************)
(* C13: for an address <= 0x1f the IR write is issued before the DR access *)
(* exactly when the address differs from current_ir; of two consecutive    *)
(* successful accesses to the same address the second issues no IR write.  *)
(***************************************************************************)
C13_IrWriteOnlyOnChange ==
    /\ [](C13_IrBeforeDr /\ C13_NoIrWriteForSameAddress)
    /\ [][C13_IrWhenAddressDiffers]_vars

\* Two successful accesses to address 5 in a row, the second with the DR
\* access alone.
C13_Witness ==
    /\ last_ok = 5
    /\ jtag_call.address = 5
    /\ jtag_ret = "Ok"
    /\ Len(jtag_log) = 1
    /\ jtag_log[1].op = "dr"

(***************************************************************************)
(* C14 as written: on a freshly constructed probe the first access issues  *)
(* an IR write, for every address in 0..0x1f.                              *)
(***************************************************************************)
C14_FirstAccessWritesIr ==
    (n_access = 1 /\ jtag_call.address \in 0..31) => ~AccessWithoutIrWrite

(***************************************************************************)
(* C14: on a freshly constructed probe, where current_ir is 1, the first   *)
(* access issues an IR write for every address in 0..0x1f but 1; the first *)
(* access to address 1 issues none.                                        *)
(***************************************************************************)
C14_FirstAccessWritesIrUnlessOne ==
    (n_access = 1 /\ jtag_call.address \in 0..31) =>
       (AccessWithoutIrWrite <=> jtag_call.address = 1)

\* The first access, to address 1, is over with its DR access alone.
C14_Witness ==
    /\ n_access = 1
    /\ jtag_call.address = 1
    /\ jtag_ret = "Ok"
    /\ IrWrites = {}

\* current_ir_reg is the value of the last IR write whose jtag_io
\* succeeded, or the initial 1; an IR write that failed is the last jtag_io
\* of its access.
C15_IrIsLastShifted ==
    /\ current_ir_reg = IF ir_shifted = NoAddress THEN 1 ELSE ir_shifted
    /\ \A i \in IrWrites :
          ~jtag_log[i].ok =>
             /\ i = Len(jtag_log)
             /\ jtag_pc = "idle"
             /\ jtag_ret = "ProbeSpecific"

\* An IR write or a DR access that fails leaves current_ir_reg as it was.
C15_FailureKeepsIr ==
    (Len(jtag_log') > Len(jtag_log) /\ ~jtag_log'[Len(jtag_log')].ok) =>
       current_ir_reg' = current_ir_reg

(***************************************************************************)
(* C15: after any sequence of accesses, failed ones among them,            *)
(* current_ir is the value of the last IR write that completed, or its     *)
(* initial value; a failed IR write leaves it unchanged and no DR access   *)
(* follows.                                                                *)
(***************************************************************************)
C15_CurrentIrTracksIr ==
    /\ []C15_IrIsLastShifted
    /\ [][C15_FailureKeepsIr]_vars

\* An IR write failed after an earlier one had set current_ir_reg to 7.
C15_Witness ==
    /\ current_ir_reg = 7
    /\ ir_shifted = 7
    /\ jtag_call.address = 9
    /\ jtag_ret = "ProbeSpecific"
    /\ Len(jtag_log) = 1
    /\ jtag_log[1].op = "ir"

\* A call with an address above 0x1f is over at once, NotImplemented, with
\* no jtag_io call.
C16_NoIo ==
    jtag_call.address > 31 =>
       /\ jtag_pc = "idle"
       /\ jtag_ret = "NotImplemented"
       /\ jtag_log = <<>>

(***************************************************************************)
(* C16: read_register and write_register with an address > 0x1f return    *)
(* NotImplemented without a jtag_io call and without changing current_ir.  *)
(***************************************************************************)
C16_LargeAddressNotImplemented ==
    /\ []C16_NoIo
    /\ [][(JtagCallStep /\ jtag_call'.address > 31) =>
             current_ir_reg' = current_ir_reg]_vars

\* Address 0x20 was refused on a probe whose current_ir_reg an earlier
\* access had set.
C16_Witness ==
    /\ jtag_call.address = 32
    /\ jtag_ret = "NotImplemented"
    /\ current_ir_reg = 7

(***************************************************************************)
(* DebugProbe::set_speed and speed.  The computation is in u32; a value    *)
(* v is held as [k, u] with v = 1000 * k + u and u < 1000, which keeps     *)
(* every intermediate number within the checker's integers.                *)
(***************************************************************************)
U32(k, u) == [k |-> k, u |-> u]

\* 2^32 = 4294967 * 1000 + 296
U32Modulus == U32(4294967, 296)

U32Less(a, b) == a.k < b.k \/ (a.k = b.k /\ a.u < b.u)

\* a + b and a - b in the integers, a >= b for the difference
WideAdd(a, b) == U32(a.k + b.k + ((a.u + b.u) \div 1000), (a.u + b.u) % 1000)
WideSub(a, b) == IF a.u >= b.u THEN U32(a.k - b.k, a.u - b.u)
                 ELSE U32(a.k - b.k - 1, a.u + 1000 - b.u)

\* The u32 sum: its value, and whether it left the u32 range.
U32Add(a, b) ==
    LET sum == WideAdd(a, b)
    IN  IF U32Less(sum, U32Modulus)
        THEN [value |-> sum, overflow |-> FALSE]
        ELSE [value |-> WideSub(sum, U32Modulus), overflow |-> TRUE]

\* The u32 difference a - 1
U32Pred(a) ==
    IF a = U32(0, 0)
    THEN [value |-> WideSub(U32Modulus, U32(0, 1)), overflow |-> TRUE]
    ELSE [value |-> WideSub(a, U32(0, 1)), overflow |-> FALSE]

\* a / d for a divider d >= 1, digit by digit
U32Div(a, d) ==
    LET t1 == (a.k % d) * 10 + (a.u \div 100)
        t2 == (t1 % d) * 10 + ((a.u \div 10) % 10)
        t3 == (t2 % d) * 10 + (a.u % 10)
    IN  U32(a.k \div d, (t1 \div d) * 100 + (t2 \div d) * 10 + (t3 \div d))

Max(a, b) == IF a >= b THEN a ELSE b

SpeedRet(status, value, calls, speed) ==
    [status |-> status, value |-> value, calls |-> calls, speed_khz |-> speed]

\* Mutant: 0xffff itself is let through.
speed_in_range_Inclusive(speed_khz_arg) ==
    ~(speed_khz_arg = 0 \/ speed_khz_arg > 65535)

\* if speed_khz == 0 || speed_khz >= 0xffff
speed_in_range(speed_khz_arg) ==
    ~(speed_khz_arg = 0 \/ speed_khz_arg >= 65535)

\* Mutant: the divider is the probe's smallest, whatever speed was asked for.
compute_speed_MinDivOnly(khz, speeds) ==
    LET div == speeds.min_div
        quotient == IF div = 0 THEN U32(0, 0) ELSE U32Div(speeds.base_freq, div)
        rounded == U32Add(quotient, U32(0, 999))
    IN  [div |-> div,
         actual |-> rounded.value.k,
         overflow |-> div # 0 /\ rounded.overflow,
         div_by_zero |-> div = 0]

\* set_speed from `let speed_hz` to the test of actual_speed_khz: the
\* divider, the speed, and whether an operation overflowed or divided by 0.
compute_speed(khz, speeds) ==
    LET speed_hz == U32(khz, 0)
        sum == U32Add(speeds.base_freq, speed_hz)
        numerator == U32Pred(sum.value)
        div1 == numerator.value.k \div khz
        div == Max(div1, speeds.min_div)
        quotient == IF div = 0 THEN U32(0, 0) ELSE U32Div(speeds.base_freq, div)
        rounded == U32Add(quotient, U32(0, 999))
    IN  [div |-> div,
         actual |-> rounded.value.k,
         overflow |-> sum.overflow \/ numerator.overflow
                        \/ (div # 0 /\ rounded.overflow),
         div_by_zero |-> div = 0]

\* set_speed(speed_khz): what it returns, the calls it makes on the handle
\* and the speed_khz it leaves.  read_ok and io_ok say whether read_speeds
\* and the handle's set_speed succeed; checked says whether the build
\* panics on arithmetic overflow or wraps.
set_speed(khz, speeds, before, read_ok, io_ok, checked) ==
    IF ~speed_in_range(khz)
    THEN SpeedRet("UnsupportedSpeed", khz, <<>>, before)
    ELSE LET c == compute_speed(khz, speeds)
             read == [call |-> "read_speeds", value |-> 0, ok |-> read_ok]
             actual == IF read_ok THEN c.actual ELSE khz
             program == [call |-> "set_speed", value |-> actual, ok |-> io_ok]
         IN  IF read_ok /\ (c.div_by_zero \/ (c.overflow /\ checked))
             THEN SpeedRet("Panic", 0, <<read>>, before)
             ELSE IF read_ok /\ c.actual > khz
             THEN SpeedRet("UnsupportedSpeed", khz, <<read>>, before)
             ELSE IF ~io_ok
             THEN SpeedRet("ProbeSpecific", 0, <<read, program>>, before)
             ELSE SpeedRet("Ok", actual, <<read, program>>, actual)

\* The speeds requested, in kHz.
SpeedRequests == {0, 1, 1000, 4000, 50000, 65534, 65535, 70000}

\* The base frequencies a J-Link reports, in Hz: 48 MHz, 12 MHz,
\* 16 000 001 Hz, and three close to the end of the u32 range.
BaseFrequencies ==
    { U32(48000, 0), U32(12000, 0), U32(16000, 1),
      U32(4294000, 0), U32(4293967, 296), U32(4294967, 295) }

MinDividers == {0, 1, 4}

InitSpeed ==
    /\ SwdIdle
    /\ ParseIdle
    /\ JtagIdle
    /\ DebugIdle
    /\ \E base_freq \in BaseFrequencies, min_div \in MinDividers :
          handle = Handle(TRUE, {"Jtag", "Swd"}, base_freq, min_div)

\* DebugProbe::set_speed(speed_khz)
SetSpeed ==
    /\ probe_pc = "idle"
    /\ \E khz \in SpeedRequests, read_ok \in BOOLEAN, io_ok \in BOOLEAN,
          checked \in BOOLEAN :
          LET r == set_speed(khz, handle, speed_khz, read_ok, io_ok, checked)
          IN  /\ probe_call' = [fn |-> "set_speed", khz |-> khz,
                                before |-> speed_khz, read_ok |-> read_ok,
                                io_ok |-> io_ok, checked |-> checked]
              /\ probe_ret' = [status |-> r.status, value |-> r.value]
              /\ probe_log' = r.calls
              /\ speed_khz' = r.speed_khz
              /\ handle' = IF r.status = "Ok"
                           THEN [handle EXCEPT !.speed = r.value]
                           ELSE handle
              /\ probe_pc' = IF r.status = "Panic" THEN "dead" ELSE "idle"
    /\ UNCHANGED <<protocol, batch_vars, dap_vars, parse_vars, jtag_vars,
                   swo_config>>

NextSpeed == SetSpeed

SpecSpeed == InitSpeed /\ [][NextSpeed]_vars

(***************************************************************************)
(* Vocabulary of the set_speed properties: the divider and the speed as    *)
(* the formulas give them, in the integers.                                *)
(***************************************************************************)
\* ceil(base_freq / (1000 * khz))
CeilOfBaseOverHz(base_freq, khz) ==
    (base_freq.k + khz - 1 + (IF base_freq.u > 0 THEN 1 ELSE 0)) \div khz

\* div = max(ceil(base_freq / (1000 * khz)), min_div)
DividerFor(khz) == Max(CeilOfBaseOverHz(handle.base_freq, khz), handle.min_div)

\* actual = ceil(floor(base_freq / div) / 1000)
ActualFor(khz) ==
    LET q == U32Div(handle.base_freq, DividerFor(khz))
    IN  q.k + (IF q.u > 0 THEN 1 ELSE 0)

\* The last call was set_speed, and the probe answered what it was asked.
SetSpeedDone == probe_call.fn = "set_speed"
ProbeAnswered == probe_call.read_ok /\ probe_call.io_ok

\* speed() after the call is what it was before.
SpeedUnchanged == speed_khz = probe_call.before

\* Calls on the handle that change the probe.
Programmed == { i \in 1..Len(probe_log) : probe_log[i].call = "set_speed" }

(***************************************************************************)
(* C17: set_speed(khz) fails with UnsupportedSpeed for khz = 0 and for     *)
(* khz >= 65535 without touching the probe; otherwise, on a probe that     *)
(* answers, it computes div and actual as above, fails with                *)
(* UnsupportedSpeed if actual > khz, and else programs and records actual, *)
(* so that speed() = actual <= khz; after a failed call speed() is         *)
(* unchanged.                                                              *)
(***************************************************************************)
C17_SetSpeed ==
    (SetSpeedDone /\ ProbeAnswered) =>
       LET khz == probe_call.khz
       IN  IF khz = 0 \/ khz >= 65535
           THEN /\ probe_ret.status = "UnsupportedSpeed"
                /\ probe_log = <<>>
                /\ SpeedUnchanged
           ELSE IF ActualFor(khz) > khz
           THEN /\ probe_ret.status = "UnsupportedSpeed"
                /\ Programmed = {}
                /\ SpeedUnchanged
           ELSE /\ probe_ret = [status |-> "Ok", value |-> ActualFor(khz)]
                /\ speed_khz = ActualFor(khz)
                /\ speed_khz <= khz
                /\ handle.speed = ActualFor(khz)

(***************************************************************************)
(* Vocabulary of the single-Write batch.                                   *)
(***************************************************************************)
\* The batch is one Write transfer, and perform_transfers has built its
\* sequence.
SingleWrite ==
    /\ pc # "idle"
    /\ Len(transfers) = 1
    /\ transfers[1].direction = "Write"

SequenceLength == Len(locals.io_sequence.io)

\* The response has an OK ACK (1, 0, 0) at bit n.
OkAckAt(n) ==
    /\ Len(result) >= n + 3
    /\ At(result, n) /\ ~At(result, n + 1) /\ ~At(result, n + 2)

\* The data word of the read frame that starts at bit n has the parity its
\* parity bit says.
ParityRightAt(n) ==
    /\ Len(result) >= n + 46
    /\ (Cardinality({ i \in 13..44 : At(result, n + i) }) % 2 = 1)
          = At(result, n + 45)

HandleCall(name, fail) == [call |-> name, ok |-> fail # name]

InterfaceRet(ok, p, err, calls) ==
    [ok |-> ok, protocol |-> p, err |-> err, calls |-> calls]

\* Mutant: the available interfaces are not consulted.
interface_available_Any(h, p) == TRUE

\* read_available_interfaces()?.any(|interface| interface == jlink_interface)
interface_available(h, p) == p \in h.interfaces

\* select_interface(Some(p)) on the handle h
select_interface(h, p, fail) ==
    LET caps == HandleCall("read_capabilities", fail)
        avail == HandleCall("read_available_interfaces", fail)
        select == [call |-> "select_interface", ok |-> fail # "select_interface",
                   interface |-> p]
    IN  IF ~caps.ok
        THEN InterfaceRet(FALSE, p, "ProbeSpecific", <<caps>>)
        ELSE IF h.select_if
        THEN IF ~avail.ok
             THEN InterfaceRet(FALSE, p, "ProbeSpecific", <<caps, avail>>)
             ELSE IF interface_available(h, p)
             THEN IF ~select.ok
                  THEN InterfaceRet(FALSE, p, "ProbeSpecific", <<caps, avail, select>>)
                  ELSE InterfaceRet(TRUE, p, "none", <<caps, avail, select>>)
             ELSE InterfaceRet(FALSE, p, "UnsupportedProtocol", <<caps, avail>>)
        ELSE IF p = "Jtag"
             THEN InterfaceRet(TRUE, "Jtag", "none", <<caps>>)
             ELSE InterfaceRet(FALSE, p, "UnsupportedProtocol", <<caps>>)

\* The interface the probe is on after the calls
SelectedBy(calls, before) ==
    IF \E i \in 1..Len(calls) : calls[i].call = "select_interface" /\ calls[i].ok
    THEN (CHOOSE c \in { calls[i] : i \in 1..Len(calls) } :
             c.call = "select_interface").interface
    ELSE before

\* select_protocol(protocol): what it returns and the protocol it leaves
select_protocol(h, p, before, fail) ==
    LET r == select_interface(h, p, fail)
    IN  IF ~r.ok
        THEN [status |-> r.err, protocol |-> before, calls |-> r.calls]
        ELSE IF r.protocol = p
        THEN [status |-> "Ok", protocol |-> p, calls |-> r.calls]
        ELSE [status |-> "UnsupportedProtocol", protocol |-> r.protocol,
              calls |-> r.calls]

\* supported_protocols of new_from_selector, in the order of the interfaces
supported_protocols(h) ==
    IF h.select_if
    THEN SelectSeq(<<"Jtag", "Swd">>, LAMBDA p : p \in h.interfaces)
    ELSE <<"Jtag">>

WireProtocols == {"Swd", "Jtag"}

SelectFailures ==
    {"none", "read_capabilities", "read_available_interfaces", "select_interface"}

AttachFailures ==
    SelectFailures \cup {"read_capabilities (attach)", "read_target_voltage"}

JtagFailures == {"none", "reset_trst", "jtag_io", "read_dr"}

InitAttach ==
    /\ SwdIdle
    /\ ParseIdle
    /\ JtagIdle
    /\ DebugIdle
    /\ \E select_if \in BOOLEAN, interfaces \in SUBSET WireProtocols :
          handle = Handle(select_if, interfaces, UsualHandle.base_freq,
                          UsualHandle.min_div)

ProbeReturn(status) ==
    /\ probe_ret' = [status |-> status, value |-> 0]
    /\ probe_pc' = IF status = "Panic" THEN "dead" ELSE "idle"

\* DebugProbe::select_protocol(protocol)
SelectProtocol ==
    /\ probe_pc = "idle"
    /\ \E p \in WireProtocols, fail \in SelectFailures :
          LET r == select_protocol(handle, p, protocol, fail)
          IN  /\ probe_call' = [fn |-> "select_protocol", protocol |-> p,
                                before |-> protocol, fail |-> fail]
              /\ probe_log' = r.calls
              /\ protocol' = r.protocol
              /\ handle' = [handle EXCEPT !.interface = SelectedBy(r.calls, @)]
              /\ ProbeReturn(r.status)
    /\ UNCHANGED <<speed_khz, batch_vars, dap_vars, parse_vars, jtag_vars,
                   swo_config>>

\* attach: configured_protocol; None stands for the panic of
\* supported_protocols.first().unwrap() on an empty list.
configured_protocol(h, selected) ==
    IF selected # "None" THEN selected
    ELSE IF \E i \in 1..Len(supported_protocols(h)) : supported_protocols(h)[i] = "Swd"
    THEN "Swd"
    ELSE IF supported_protocols(h) = <<>> THEN "None"
    ELSE supported_protocols(h)[1]

\* attach up to `match actual_protocol`
AttachCall ==
    /\ probe_pc = "idle"
    /\ \E fail \in AttachFailures :
          LET configured == configured_protocol(handle, protocol)
              r == select_interface(handle, configured, fail)
              caps == HandleCall("read_capabilities (attach)", fail)
              voltage == HandleCall("read_target_voltage", fail)
              call == [fn |-> "attach", protocol |-> configured,
                       before |-> protocol, fail |-> fail]
          IN  /\ probe_call' = call
              /\ IF configured = "None"
                 THEN /\ probe_log' = <<>>
                      /\ handle' = handle
                      /\ ProbeReturn("Panic")
                 ELSE /\ handle' = [handle EXCEPT !.interface = SelectedBy(r.calls, @)]
                      /\ IF ~r.ok
                         THEN /\ probe_log' = r.calls
                              /\ ProbeReturn(r.err)
                         ELSE IF ~caps.ok
                         THEN /\ probe_log' = r.calls \o <<caps>>
                              /\ ProbeReturn("ProbeSpecific")
                         ELSE IF ~voltage.ok
                         THEN /\ probe_log' = r.calls \o <<caps, voltage>>
                              /\ ProbeReturn("ProbeSpecific")
                         ELSE /\ probe_log' = r.calls \o <<caps, voltage>>
                              /\ probe_ret' = NoProbeRet
                              /\ probe_pc' = IF r.protocol = "Swd"
                                             THEN "attach_swd" ELSE "attach_jtag"
    /\ UNCHANGED <<protocol, speed_khz, batch_vars, dap_vars, parse_vars, jtag_vars,
                   swo_config>>

\* attach: the JTAG to SWD sequence
jtag_to_swd_sequence ==
    <<FALSE, TRUE, TRUE, TRUE, TRUE, FALSE, FALSE, TRUE, TRUE, TRUE, TRUE, FALSE,
      FALSE, TRUE, TRUE, TRUE>>

\* attach: swd_io_sequence and direction
swd_io_sequence == Repeat(TRUE, 64) \o jtag_to_swd_sequence
swd_io_direction == Repeat(TRUE, 64) \o Repeat(TRUE, 16)

SwdIo(direction, io, ok, ack, parsed, err) ==
    [call |-> "swd_io", direction |-> direction, io |-> io, ok |-> ok,
     ack |-> ack, parsed |-> parsed, err |-> err]

\* attach: self.handle.swd_io(direction, swd_io_sequence)?
AttachSwdInit ==
    /\ probe_pc = "attach_swd"
    /\ \E io_ok \in BOOLEAN :
          /\ probe_log' = Append(probe_log,
                SwdIo(swd_io_direction, swd_io_sequence, io_ok, AckZero, FALSE,
                      "none"))
          /\ IF io_ok
             THEN /\ probe_pc' = "line_reset_1"
                  /\ UNCHANGED probe_ret
             ELSE ProbeReturn("ProbeSpecific")
    /\ UNCHANGED <<protocol, speed_khz, handle, probe_call, batch_vars, dap_vars,
                   parse_vars, jtag_vars,
                   swo_config>>

\* Mutant: a burst that brought back any ACK counts as a good line reset.
line_reset_next_AnyAck(outcome, nth) == "Ok"

\* Mutant: the error of the first burst is returned, without a second.
line_reset_next_Once(outcome, nth) ==
    IF outcome.ok THEN "Ok" ELSE outcome.err

\* swd_line_reset: what follows the parse of the nth burst
line_reset_next(outcome, nth) ==
    IF outcome.ok THEN "Ok"
    ELSE IF nth = 1 THEN "again"
    ELSE outcome.err

\* attach: self.swd_line_reset()?, one burst
AttachLineReset ==
    /\ probe_pc \in {"line_reset_1", "line_reset_2"}
    /\ \E io_ok \in BOOLEAN, answer \in DapAnswers :
          LET outcome == LineResetOutcome(answer)
              next == line_reset_next(outcome, IF probe_pc = "line_reset_1" THEN 1 ELSE 2)
          IN  /\ probe_log' = Append(probe_log,
                    SwdIo(LineResetSequence.direction, LineResetSequence.io, io_ok,
                          IF io_ok THEN answer.ack ELSE AckZero,
                          io_ok /\ outcome.ok,
                          IF io_ok THEN outcome.err ELSE "none"))
              /\ IF ~io_ok THEN ProbeReturn("ProbeSpecific")
                 ELSE IF next = "again"
                 THEN /\ probe_pc' = "line_reset_2"
                      /\ UNCHANGED probe_ret
                 ELSE ProbeReturn(next)
    /\ UNCHANGED <<protocol, speed_khz, handle, probe_call, batch_vars, dap_vars,
                   parse_vars, jtag_vars,
                   swo_config>>

\* The instruction a TAP holds after a reset: IDCODE, taken to be the
\* value a new JLink has in current_ir_reg.
IDCODE_INSTRUCTION == 1

\* attach in JTAG mode: reset_trst()?, jtag_io(tms, tdi)?, read_dr(32)?
\* The TAP's instruction register is reset once reset_trst went through.
AttachJtag ==
    /\ probe_pc = "attach_jtag"
    /\ \E fail \in JtagFailures :
          LET trst == HandleCall("reset_trst", fail)
              reset == [call |-> "jtag_io", ok |-> fail # "jtag_io",
                        tms |-> <<TRUE, TRUE, TRUE, TRUE, TRUE, FALSE>>,
                        tdi |-> Repeat(FALSE, 6)]
              idcode == HandleCall("read_dr", fail)
          IN  /\ probe_log' = probe_log \o
                    (IF ~trst.ok THEN <<trst>>
                     ELSE IF ~reset.ok THEN <<trst, reset>>
                     ELSE <<trst, reset, idcode>>)
              /\ ir_shifted' = IF trst.ok THEN IDCODE_INSTRUCTION ELSE ir_shifted
              /\ ProbeReturn(IF fail = "none" THEN "Ok" ELSE "ProbeSpecific")
    /\ UNCHANGED <<protocol, speed_khz, handle, probe_call, batch_vars, dap_vars,
                   parse_vars, swo_config, current_ir_reg, jtag_pc, jtag_call,
                   jtag_ret, jtag_log, last_ok, n_access, jtag_idle_cycles,
                   jtag_data>>

NextAttach ==
    \/ SelectProtocol
    \/ AttachCall
    \/ AttachSwdInit
    \/ AttachLineReset
    \/ AttachJtag

SpecAttach == InitAttach /\ [][NextAttach]_vars

(***************************************************************************)
(* Vocabulary of the select_protocol and attach properties.                *)
(***************************************************************************)
SelectProtocolDone == probe_call.fn = "select_protocol"

\* The probe has SELECT_IF and p among its interfaces, or has no SELECT_IF
\* and p is JTAG.
CanSelect(p) ==
    \/ handle.select_if /\ p \in handle.interfaces
    \/ ~handle.select_if /\ p = "Jtag"

ProtocolUnchanged == protocol = probe_call.before

\* A call the DebugProbe call made on the handle failed.
HandleCallFailed == \E i \in 1..Len(probe_log) : ~probe_log[i].ok

SelectedOrUnsupported ==
    LET p == probe_call.protocol
    IN  IF CanSelect(p)
        THEN probe_ret.status = "Ok" /\ protocol = p
        ELSE probe_ret.status = "UnsupportedProtocol" /\ ProtocolUnchanged

(***************************************************************************)
(* C18 as written: select_protocol(p) returns Ok and makes p the selected  *)
(* protocol when the probe has SELECT_IF and p is among its available      *)
(* interfaces, or lacks SELECT_IF and p is JTAG; in every other case it    *)
(* returns UnsupportedProtocol(p) and leaves the selected protocol.        *)
(***************************************************************************)
C18_SelectProtocol == SelectProtocolDone => SelectedOrUnsupported

(***************************************************************************)
(* C18: as above when every call select_protocol makes on the handle       *)
(* succeeds; when one fails, select_protocol returns that error and leaves *)
(* the selected protocol unchanged.                                        *)
(***************************************************************************)
C18_SelectProtocolUnlessProbeFails ==
    SelectProtocolDone =>
       IF HandleCallFailed
       THEN probe_ret.status = "ProbeSpecific" /\ ProtocolUnchanged
       ELSE SelectedOrUnsupported

\* SWD was selected on a probe that had JTAG selected.
C18_Witness ==
    /\ SelectProtocolDone
    /\ probe_call.before = "Jtag"
    /\ probe_call.protocol = "Swd"
    /\ probe_ret.status = "Ok"
    /\ protocol = "Swd"
    /\ handle.interface = "Swd"

\* attach is running or has run with SWD as the protocol.
AttachWithSwd ==
    /\ probe_call.fn = "attach"
    /\ \E i \in 1..Len(probe_log) :
          probe_log[i].call = "select_interface" /\ probe_log[i].ok
             /\ probe_log[i].interface = "Swd"

\* The bursts attach has handed to swd_io, in order.
Bursts == SelectSeq(probe_log, LAMBDA c : c.call = "swd_io")

IsInitBurst(b) ==
    /\ Len(b.io) = 80
    /\ Len(b.direction) = 80
    /\ \A n \in 1..80 : b.direction[n] = OUTPUT
    /\ \A n \in 1..64 : b.io[n]
    /\ SubSeq(b.io, 65, 80) =
          <<FALSE, TRUE, TRUE, TRUE, TRUE, FALSE, FALSE, TRUE, TRUE, TRUE, TRUE,
            FALSE, FALSE, TRUE, TRUE, TRUE>>

\* A burst of the line reset: 50 ones and the read of DPIDR.
IsLineResetBurst(b) ==
    /\ b.io = LineResetSequence.io
    /\ b.direction = LineResetSequence.direction

CallerWrite(f) == f.src # 0 /\ f.kind = "Write"

\* The bits of one frame, as build_swd_transfer gives them.
FrameBits(f) == build_swd_transfer(f.port, [kind |-> f.kind, value |-> f.value],
                                   f.address)

SixteenZeros == [io |-> Repeat(FALSE, 16), direction |-> Repeat(OUTPUT, 16)]

\* The frames one after the other, 16 zero output bits after each frame of a
\* caller Write and after no other.
RECURSIVE FramesWithIdle(_, _)
FramesWithIdle(wire, i) ==
    IF i > Len(wire) THEN IoSequence_new
    ELSE extend(IF CallerWrite(wire[i]) THEN extend(FrameBits(wire[i]), SixteenZeros)
                ELSE FrameBits(wire[i]),
                FramesWithIdle(wire, i + 1))

IdleAfterCallerWrites ==
    pc # "idle" => locals.io_sequence = FramesWithIdle(locals.wire, 1)

SingleWriteLayout ==
    SingleWrite =>
       /\ SequenceLength = 48 + 16 + 48
       /\ Len(locals.wire) = 2
       /\ CallerWrite(locals.wire[1])
       /\ FrameTransfer(locals.wire[2]) =
             [port |-> DebugPort, direction |-> "Read", address |-> RdBuff_ADDRESS]

SingleWriteReturned == SingleWrite /\ pc = "returned" /\ ret = "Ok"

ReturnsOkStep == pc = "swd_io" /\ pc' = "returned" /\ ret' = "Ok"

\* swd_io failed.
SwdIoFailsStep == pc = "swd_io" /\ pc' = "returned" /\ ret' # "Ok"

\* The response the k-th transfer's result is read from, after the step.
ResultResponse(k) == At(responses', locals.result_indices[k])

SameRequest(k) ==
    /\ transfers'[k].port = transfers[k].port
    /\ transfers'[k].direction = transfers[k].direction
    /\ transfers'[k].address = transfers[k].address

C22_Step ==
    ReturnsOkStep =>
       /\ Len(transfers') = Len(transfers)
       /\ \A k \in 1..Len(transfers) :
             /\ SameRequest(k)
             /\ IF transfers[k].direction = "Read" /\ ResultResponse(k).ok
                THEN transfers'[k].value = ResultResponse(k).value
                ELSE transfers'[k].value = transfers[k].value

(***************************************************************************)
(* C22: perform_transfers changes a transfer's value only when it is a     *)
(* Read whose result frame parsed Ok, to the word returned; the value of   *)
(* every Write and of every failed Read, and the port, direction and       *)
(* address of every transfer, are left unchanged.                          *)
(***************************************************************************)
C22_ValueOnlyOnOkRead == [][C22_Step]_vars

\* A batch came back with a read that failed and kept the word it had, and
\* a read that brought a new word.
C22_Witness ==
    /\ pc = "returned" /\ ret = "Ok"
    /\ Len(transfers) = 2
    /\ transfers[1].direction = "Read"
    /\ transfers[1].status.tag = "Failed"
    /\ transfers[1].value = WriteValue
    /\ transfers[2].direction = "Read"
    /\ transfers[2].status = StatusOk
    /\ transfers[2].value = RegisterValue

(***************************************************************************)
(* A client of the SWD side as a whole: it hands a batch to                *)
(* perform_transfers itself, or it makes a DAPAccess call.                 *)
(***************************************************************************)
DapUntouched == stack = <<>> /\ dap_ret = NoRet /\ n_bursts = 0

NextSwd ==
    \/ DapUntouched /\ Next
    \/ pc = "idle" /\ NextDap

SpecSwd == Init /\ [][NextSwd]_vars

\* perform_transfers returns the error of swd_io and leaves the transfers
\* as they were handed in, Pending.
C23_BatchUntouched ==
    SwdIoFailsStep =>
       /\ ret' = "ProbeSpecific"
       /\ transfers' = transfers
       /\ \A k \in 1..Len(transfers') : transfers'[k].status = Pending

\* The DAPAccess call whose attempt failed in swd_io, and every call that
\* was waiting for it, return in the same step: the failed burst is the last.
C23_ReturnedAtOnce ==
    AttemptStep(IoError) =>
       /\ stack' = <<>>
       /\ dap_ret' = ErrRet("ProbeSpecific")

(***************************************************************************)
(* C23: if the probe's swd_io call fails, perform_transfers returns that   *)
(* error and leaves every transfer's status (Pending) and value unchanged, *)
(* and read_register/write_register return the error at once, without      *)
(* another attempt and without Abort, CTRL/STAT or line-reset traffic.     *)
(***************************************************************************)
C23_IoErrorReturned ==
    [][/\ C23_BatchUntouched
       /\ C23_ReturnedAtOnce
       /\ dap_ret' = ErrRet("ProbeSpecific") => last_burst'.status = IoError]_vars

\* The Abort write that follows a WAIT failed in swd_io, and the call
\* returned that error after its second burst.
C23_Witness ==
    /\ dap_ret = ErrRet("ProbeSpecific")
    /\ last_burst.kind = "transfer"
    /\ last_burst.status = IoError
    /\ last_burst.depth = 2
    /\ n_bursts = 2

(***************************************************************************)
(* SwoAccess::enable_swo and disable_swo.  The UART of the probe is        *)
(* handle.swo: never started, started with a baud rate and a buffer size,  *)
(* or stopped.                                                             *)
(***************************************************************************)
SWO_BUFFER_SIZE == 128

\* SwoConfig values, told apart by their baud rate
SwoConfigs == { [baud |-> b] : b \in {9600, 115200, 2000000} }

\* Option<SwoConfig>
NoConfig == [some |-> FALSE, baud |-> 0]
Some(config) == [some |-> TRUE, baud |-> config.baud]

Started(baud, buffer_size) ==
    [state |-> "started", baud |-> baud, buffer_size |-> buffer_size]
Stopped == [state |-> "stopped", baud |-> 0, buffer_size |-> 0]

SwoRet(status, config, uart) == [status |-> status, swo_config |-> config, swo |-> uart]

\* enable_swo(config); io_ok says whether swo_start_uart succeeds
enable_swo(config, uart, io_ok) ==
    IF io_ok
    THEN SwoRet("Ok", Some(config), Started(config.baud, SWO_BUFFER_SIZE))
    ELSE SwoRet("ArchitectureSpecific", Some(config), uart)

\* disable_swo(); io_ok says whether swo_stop succeeds
disable_swo(uart, io_ok) ==
    IF io_ok
    THEN SwoRet("Ok", NoConfig, Stopped)
    ELSE SwoRet("ArchitectureSpecific", NoConfig, uart)

SwoDone(call, r) ==
    /\ probe_call' = call
    /\ probe_ret' = [status |-> r.status, value |-> 0]
    /\ swo_config' = r.swo_config
    /\ handle' = [handle EXCEPT !.swo = r.swo]
    /\ UNCHANGED <<protocol, speed_khz, probe_pc, batch_vars, dap_vars, parse_vars,
                   jtag_vars>>

\* SwoAccess::enable_swo(config)
EnableSwo ==
    /\ probe_pc = "idle"
    /\ \E config \in SwoConfigs, io_ok \in BOOLEAN :
          /\ probe_log' = <<[call |-> "swo_start_uart", baud |-> config.baud,
                             buffer_size |-> SWO_BUFFER_SIZE, ok |-> io_ok]>>
          /\ SwoDone([fn |-> "enable_swo", config |-> config, io_ok |-> io_ok,
                      before |-> swo_config, uart_before |-> handle.swo],
                     enable_swo(config, handle.swo, io_ok))

\* SwoAccess::disable_swo()
DisableSwo ==
    /\ probe_pc = "idle"
    /\ \E io_ok \in BOOLEAN :
          /\ probe_log' = <<[call |-> "swo_stop", ok |-> io_ok]>>
          /\ SwoDone([fn |-> "disable_swo", io_ok |-> io_ok,
                      before |-> swo_config, uart_before |-> handle.swo],
                     disable_swo(handle.swo, io_ok))

NextSwo == EnableSwo \/ DisableSwo

SpecSwo == Init /\ [][NextSwo]_vars

(***************************************************************************)
(* C24: after enable_swo(config) the stored SWO config is Some(config) and *)
(* the probe's SWO UART was started with config's baud rate and a 128-byte *)
(* buffer; after disable_swo the stored config is None and the UART was    *)
(* stopped; over any sequence of enable_swo/disable_swo calls the stored   *)
(* config is Some exactly after an enable not yet followed by a disable.   *)
(***************************************************************************)
C24_SwoConfigTracksUart ==
    /\ probe_call.fn = "enable_swo" =>
          /\ swo_config = Some(probe_call.config)
          /\ handle.swo = Started(probe_call.config.baud, 128)
    /\ probe_call.fn = "disable_swo" =>
          /\ swo_config = NoConfig
          /\ handle.swo = Stopped
    /\ swo_config.some <=> (probe_call.fn = "enable_swo")

(***************************************************************************)
(* Vocabulary of the drain of a buffered AP write.                         *)
(***************************************************************************)
\* The `length` bits of the burst from bit `from` on.
BurstBits(from, length) ==
    [io |-> SubSeq(locals.io_sequence.io, from + 1, from + length),
     direction |-> SubSeq(locals.io_sequence.direction, from + 1, from + length)]

RdBuffFrame == build_swd_transfer(DebugPort, TypeRead, RdBuff_ADDRESS)

CallerFrame(k) ==
    build_swd_transfer(transfers[k].port, transfer_type(transfers[k]),
                       transfers[k].address)

\* The caller's k-th transfer is an AP write and has a follower.
ApWriteFollowed(k) ==
    /\ k \in 1..(Len(transfers) - 1)
    /\ IsApWrite(transfers[k])

\* What lies in the burst between the frame of the k-th transfer, an AP
\* write, and the frame of its follower.
DrainBetween(k) ==
    LET wire == locals.wire
        own == OwnFrame(wire, k)
        next == OwnFrame(wire, k + 1)
        start == FrameOffset(wire, own)
    IN  /\ BurstBits(start, 48) = CallerFrame(k)
        /\ BurstBits(start + 48, 16) = SixteenZeros
        /\ IF IsUnstallable(transfers[k + 1])
           THEN /\ next = own + 2
                /\ FrameIsAux(wire[own + 2])
                /\ BurstBits(start + 48 + 16, 48) = RdBuffFrame
                /\ BurstBits(start + 48 + 16 + 48, 48) = CallerFrame(k + 1)
           ELSE /\ next = own + 1
                /\ BurstBits(start + 48 + 16, 48) = CallerFrame(k + 1)

(***************************************************************************)
(* C25: whenever a DP write to Abort, a DP read of DPIDR or a DP read of   *)
(* CTRL/STAT directly follows an AP Write in a batch, a DP Read of RDBUFF  *)
(* frame is emitted between the two, after the AP write's 16 idle bits and *)
(* immediately before the follower's frame; for every other follower of an *)
(* AP Write nothing is inserted.                                           *)
(***************************************************************************)
C25_DrainBeforeUnstallable ==
    pc # "idle" =>
       \A k \in 1..Len(transfers) : ApWriteFollowed(k) => DrainBetween(k)

\* An AP write followed by a read of CTRL/STAT, RDBUFF read between them.
C25_Witness ==
    /\ pc = "swd_io"
    /\ ApWriteFollowed(1)
    /\ transfers[2] = SwdTransfer(DebugPort, "Read", Ctrl_ADDRESS, 0)
    /\ Len(locals.wire) = 3
    /\ FrameIsRdBuffRead(locals.wire[2])

(***************************************************************************)
(* Vocabulary of the length of the burst and of the place of its frames.   *)
(***************************************************************************)
\* 48 bits, and 16 more if the frame is that of a caller Write
FrameSpan(f) == 48 + (IF CallerWrite(f) THEN 16 ELSE 0)

\* The offset at which the i-th frame was emitted: the spans before it.
RECURSIVE EmittedAt(_, _)
EmittedAt(wire, i) ==
    IF i = 1 THEN 0 ELSE EmittedAt(wire, i - 1) + FrameSpan(wire[i - 1])

BurstLength(wire) == EmittedAt(wire, Len(wire)) + FrameSpan(wire[Len(wire)])

\* The direction the i-th frame is parsed with.
ParsedAs(f) == IF f.kind = "Read" THEN TypeRead ELSE TypeWrite(0)

C26_Emitted ==
    pc # "idle" =>
       /\ Len(locals.io_sequence.io) = BurstLength(locals.wire)
       /\ Len(locals.io_sequence.direction) = BurstLength(locals.wire)
       /\ \A i \in 1..Len(locals.wire) :
             BurstBits(EmittedAt(locals.wire, i), 48) = FrameBits(locals.wire[i])

C26_Parsed ==
    (pc = "returned" /\ ret = "Ok") =>
       /\ Len(result) = BurstLength(locals.wire)
       /\ Len(responses) = Len(locals.wire)
       /\ \A i \in 1..Len(locals.wire) :
             responses[i] =
                parse_swd_response(SliceFrom(result, EmittedAt(locals.wire, i)),
                                   ParsedAs(locals.wire[i]))

\* swd_io is called once: a batch that was handed out comes back or fails,
\* and nothing is handed out again.
C26_OneCall ==
    /\ pc = "swd_io" => result = <<>> /\ ret = "none"
    /\ pc = "returned" => (ret = "Ok" \/ result = <<>>)

BuildAddresses == {0, 4, 8, 12, 1, 16, 252, 255}

\* Data words: none of the 31 low bits set, one of them, several, all.
BuildValues == {0, 1, WriteValue, 2147483647}

BuildInputs ==
    [port : {DebugPort, AccessPort(0), AccessPort(1)},
     direction : {TypeRead} \cup {TypeWrite(v) : v \in BuildValues},
     address : BuildAddresses]

InitBuild ==
    /\ SwdIdle
    /\ JtagIdle
    /\ DebugIdle
    /\ handle = UsualHandle
    /\ parse_in = NotParsing
    /\ parse_out = NotParsed
    /\ codec_in \in BuildInputs
    /\ codec_out = NotBuilt

\* build_swd_transfer(port, direction, address)
Build ==
    /\ codec_out = NotBuilt
    /\ codec_out' = build_swd_transfer(codec_in.port, codec_in.direction,
                                       codec_in.address)
    /\ UNCHANGED <<codec_in, parse_in, parse_out, batch_vars, dap_vars,
                   jtag_vars, debug_vars>>

NextBuild == Build

SpecBuild == InitBuild /\ [][NextBuild]_vars

\* Bit n of the frame: driven by the probe or sampled, and its level.
IsOutput(n) == codec_out.direction[n + 1] = OUTPUT
IsInput(n) == codec_out.direction[n + 1] = INPUT
Level(n) == codec_out.io[n + 1]

\* The request byte of the frame, bits 2 to 9.
RequestByte ==
    LET apndp == codec_in.port.type = "AccessPort"
        rnw == codec_in.direction.kind = "Read"
        a2 == BitOf(codec_in.address, 2)
        a3 == BitOf(codec_in.address, 3)
    IN  <<TRUE, apndp, rnw, a2, a3, (apndp # rnw) # (a2 # a3), FALSE, TRUE>>

\* The XOR of the 32 data bits of the frame, bits 15 to 46.
DataXor == Cardinality({n \in 15..46 : Level(n)}) % 2 = 1

\* C27: build_swd_transfer yields 48 bits, as many as response_length
\* says, for both directions: bits 0-1 are output 0; bits 2-9 are output
\* Start=1, APnDP, RnW, A2, A3, Parity = APnDP xor RnW xor A2 xor A3,
\* Stop=0, Park=1; bits 10-13 are input; for a Write bit 14 is input, bits
\* 15-46 are the value LSB-first as output and bit 47 is output, the XOR of
\* the 32 data bits; for a Read bits 14-47 are input.
C27_FrameLayout ==
    codec_out # NotBuilt =>
        /\ Len(codec_out.io) = 48
        /\ Len(codec_out.direction) = 48
        /\ response_length(codec_in.direction) = 48
        /\ \A n \in 0..1 : IsOutput(n) /\ ~Level(n)
        /\ \A n \in 2..9 : IsOutput(n) /\ Level(n) = RequestByte[n - 1]
        /\ \A n \in 10..13 : IsInput(n)
        /\ IF codec_in.direction.kind = "Write"
           THEN /\ IsInput(14)
                /\ \A n \in 15..46 :
                      /\ IsOutput(n)
                      /\ Level(n) = BitOf(codec_in.direction.value, n - 15)
                /\ IsOutput(47)
                /\ Level(47) = DataXor
           ELSE \A n \in 14..47 : IsInput(n)

\* A Write frame to an access port register with A2 and A3 set, its data
\* word neither a palindrome nor of even weight.
C27_Witness ==
    /\ codec_out # NotBuilt
    /\ codec_in = [port |-> AccessPort(1), direction |-> TypeWrite(1),
                   address |-> 12]
    /\ Level(15) /\ ~Level(46) /\ Level(47)

(***************************************************************************)
(* Vocabulary of swd_line_reset as attach calls it.                        *)
(***************************************************************************)
\* The bursts of swd_line_reset: those after the first burst of attach.
ResetBursts == SubSeq(Bursts, 2, Len(Bursts))

\* 50 output one-bits followed by the frame of a DP Read at address 0.
IsResetBurstOf98Bits(b) ==
    LET frame == build_swd_transfer(DebugPort, TypeRead, 0)
    IN  /\ Len(b.io) = 98
        /\ Len(b.direction) = 98
        /\ \A n \in 1..50 : b.io[n] /\ b.direction[n] = OUTPUT
        /\ SubSeq(b.io, 51, 98) = frame.io
        /\ SubSeq(b.direction, 51, 98) = frame.direction

\* The DPIDR read of the burst did not parse Ok.
ParseFailed(b) == b.ok /\ ~b.parsed

\* swd_line_reset has returned to attach, and attach to its caller.
LineResetReturned == probe_pc = "idle" /\ ResetBursts # <<>>

\* C28: swd_line_reset sends a 98-bit burst (50 output one-bits followed
\* by a DP Read frame at address 0) at most twice; it returns Ok after the
\* first attempt whose DPIDR read parses Ok without sending again, both
\* attempts send the identical sequence, and after two failed attempts it
\* returns the error of the second attempt.  An attempt swd_io fails on
\* ends the function with that error.
C28_LineResetTwice ==
    AttachWithSwd =>
       /\ Len(ResetBursts) <= 2
       /\ \A n \in 1..Len(ResetBursts) : IsResetBurstOf98Bits(ResetBursts[n])
       /\ Len(ResetBursts) = 2 =>
             /\ ResetBursts[1].io = ResetBursts[2].io
             /\ ResetBursts[1].direction = ResetBursts[2].direction
             /\ ParseFailed(ResetBursts[1])
       /\ probe_pc = "line_reset_2" =>
             Len(ResetBursts) = 1 /\ ParseFailed(ResetBursts[1])
       /\ LineResetReturned =>
             LET last == ResetBursts[Len(ResetBursts)]
             IN  IF ~last.ok THEN probe_ret.status = "ProbeSpecific"
                 ELSE IF last.parsed THEN probe_ret.status = "Ok"
                 ELSE /\ Len(ResetBursts) = 2
                      /\ probe_ret.status = last.err

\* Two attempts that failed differently: the target answered WAIT, then
\* FAULT, and the fault is what came back.
C28_Witness ==
    /\ AttachWithSwd
    /\ LineResetReturned
    /\ Len(ResetBursts) = 2
    /\ ResetBursts[1].err = "WaitResponse"
    /\ ResetBursts[2].err = "FaultResponse"
    /\ probe_ret.status = "FaultResponse"

(***************************************************************************)
(* JLink::write_ir, read_dr and write_dr called on their own, with         *)
(* set_idle_cycles in between.  Every call is one step: each of the three  *)
(* makes one jtag_io call.                                                 *)
(***************************************************************************)
\* The byte slices handed to write_ir and write_dr.
TapData == {<<17>>, <<165>>, <<52, 130>>}

\* The lengths write_ir is called with: none, up to a byte, more.
IrLens == {0, 1, 5, 7, 8, 9, 16, 17}

\* The lengths read_dr and write_dr are called with.
DrLens == {1, 7, 8, 9, 16, 32}

\* The values set_idle_cycles is called with.
IdleCycles == {0, 2}

\* The words the data register shifts out, and the level of TDO around.
TdoWords == {0, 42405}

\* What jtag_io samples on TDO during a DR access: one bit per TMS bit,
\* the register's bits while the TAP is in Shift-DR.
dr_response(register_bits, word, around, idle) ==
    Repeat(around, 3)
    \o [i \in 1..register_bits |-> BitOf(word, i - 1)]
    \o Repeat(around, 2 + idle)

\* read_dr, write_dr: tms = enter shift, register_bits - 1 zeros, enter
\* idle, the idle cycles
dr_tms(register_bits, idle) ==
    <<TRUE, FALSE, FALSE>> \o Repeat(FALSE, register_bits - 1)
    \o <<TRUE, TRUE, FALSE>> \o Repeat(FALSE, idle)

\* Mutant: tdi is taken after the idle cycles were added to tms.
read_dr_tdi_AfterIdle(register_bits, idle) ==
    Repeat(FALSE, Len(dr_tms(register_bits, idle)) + idle)

\* read_dr: tdi = repeat(false).take(tms.len() + idle_cycles), taken before
\* the idle cycles are added to tms
read_dr_tdi(register_bits, idle) ==
    Repeat(FALSE, Len(dr_tms(register_bits, 0)) + idle)

\* write_dr: tdi = three zeros, the register_bits low bits of data LSB
\* first, two zeros, the idle cycles
write_dr_tdi(data, register_bits, idle) ==
    Repeat(FALSE, 3)
    \o [i \in 1..register_bits |-> BitOf(data[((i - 1) \div 8) + 1], (i - 1) % 8)]
    \o <<FALSE, FALSE>>
    \o Repeat(FALSE, idle)

\* Mutant: the bits sampled while entering Shift-DR are not set aside.
dr_result_NoSkip(response, register_bits) ==
    LET full == register_bits \div 8
        left == register_bits % 8
        bytes == [k \in 1..full |->
                     bits_to_byte(Slice(response, 8 * (k - 1), 8 * k)) % 256]
    IN  IF left > 0
        THEN Append(bytes, bits_to_byte(Slice(response, 8 * full, 8 * full + left)) % 256)
        ELSE bytes

\* read_dr, write_dr: response.split_off(3), then bits_to_byte(
\* response.split_off(8)) as u8 while 8 bits remain, then the leftover bits
dr_result(response, register_bits) ==
    LET rest == SliceFrom(response, 3)
        full == register_bits \div 8
        left == register_bits % 8
        bytes == [k \in 1..full |->
                     bits_to_byte(Slice(rest, 8 * (k - 1), 8 * k)) % 256]
    IN  IF left > 0
        THEN Append(bytes, bits_to_byte(Slice(rest, 8 * full, 8 * full + left)) % 256)
        ELSE bytes

\* A call of the three returns, or panics and takes the program with it.
TapReturn(r) ==
    /\ jtag_ret' = r
    /\ jtag_pc' = IF r = "Panic" THEN "dead" ELSE "idle"

\* JTAGAccess::set_idle_cycles(idle_cycles)
SetIdleCycles ==
    /\ jtag_pc = "idle"
    /\ \E idle \in IdleCycles : jtag_idle_cycles' = idle
    /\ UNCHANGED <<current_ir_reg, jtag_pc, jtag_call, jtag_ret, jtag_log,
                   ir_shifted, last_ok, n_access, jtag_data, batch_vars,
                   dap_vars, parse_vars, debug_vars>>

\* write_ir(data, len)
WriteIrCall ==
    /\ jtag_pc = "idle"
    /\ \E data \in TapData, len \in IrLens, io_ok \in BOOLEAN :
          /\ jtag_call' = [fn |-> "write_ir", data |-> data, len |-> len]
          /\ IF Len(data) * 8 < len \/ len < 1
             THEN \* todo!("Proper error for incorrect length")
                  /\ jtag_log' = <<>>
                  /\ TapReturn("Panic")
                  /\ UNCHANGED <<current_ir_reg, ir_shifted>>
             ELSE LET tdi == write_ir_tdi(data, len)
                      done == write_ir_done(data, len, io_ok)
                  IN  /\ jtag_log' = <<[op |-> "ir", tms |-> write_ir_tms(len),
                                        tdi |-> tdi, ok |-> io_ok]>>
                      /\ ir_shifted' = IF io_ok THEN ShiftedIr(tdi) ELSE ir_shifted
                      /\ current_ir_reg' = done.ir
                      /\ TapReturn(IF done.ok THEN "Ok"
                                   ELSE IF io_ok THEN "NotImplemented"
                                   ELSE "ProbeSpecific")
    /\ UNCHANGED <<last_ok, n_access, jtag_idle_cycles, jtag_data, batch_vars,
                   dap_vars, parse_vars, debug_vars>>

\* read_dr(register_bits)
ReadDrCall ==
    /\ jtag_pc = "idle"
    /\ \E register_bits \in DrLens, io_ok \in BOOLEAN,
          word \in TdoWords, around \in BOOLEAN :
          LET tms == dr_tms(register_bits, jtag_idle_cycles)
              response == dr_response(register_bits, word, around, jtag_idle_cycles)
          IN  /\ jtag_call' = [fn |-> "read_dr", data |-> <<>>, len |-> register_bits,
                               idle |-> jtag_idle_cycles]
              /\ jtag_log' = <<[op |-> "dr", tms |-> tms,
                                tdi |-> read_dr_tdi(register_bits, jtag_idle_cycles),
                                ok |-> io_ok,
                                tdo |-> IF io_ok THEN response ELSE <<>>]>>
              /\ jtag_data' = IF io_ok THEN dr_result(response, register_bits)
                              ELSE <<>>
              /\ TapReturn(IF io_ok THEN "Ok" ELSE "ProbeSpecific")
    /\ UNCHANGED <<current_ir_reg, ir_shifted, last_ok, n_access, jtag_idle_cycles,
                   batch_vars, dap_vars, parse_vars, debug_vars>>

\* write_dr(data, register_bits)
WriteDrCall ==
    /\ jtag_pc = "idle"
    /\ \E data \in TapData, register_bits \in DrLens, io_ok \in BOOLEAN,
          word \in TdoWords, around \in BOOLEAN :
          /\ jtag_call' = [fn |-> "write_dr", data |-> data, len |-> register_bits,
                           idle |-> jtag_idle_cycles]
          /\ IF Len(data) * 8 < register_bits
             THEN \* &data[..num_bytes] or data[num_bytes] is out of range
                  /\ jtag_log' = <<>>
                  /\ TapReturn("Panic")
                  /\ jtag_data' = <<>>
             ELSE LET tms == dr_tms(register_bits, jtag_idle_cycles)
                      response == dr_response(register_bits, word, around,
                                              jtag_idle_cycles)
                  IN  /\ jtag_log' = <<[op |-> "dr", tms |-> tms,
                                        tdi |-> write_dr_tdi(data, register_bits,
                                                             jtag_idle_cycles),
                                        ok |-> io_ok,
                                        tdo |-> IF io_ok THEN response ELSE <<>>]>>
                      /\ jtag_data' = IF io_ok THEN dr_result(response, register_bits)
                                      ELSE <<>>
                      /\ TapReturn(IF io_ok THEN "Ok" ELSE "ProbeSpecific")
    /\ UNCHANGED <<current_ir_reg, ir_shifted, last_ok, n_access, jtag_idle_cycles,
                   batch_vars, dap_vars, parse_vars, debug_vars>>

\* write_ir, called again and again
NextIr == WriteIrCall

SpecIr == Init /\ [][NextIr]_vars

\* read_dr and write_dr, with set_idle_cycles in between
NextDr == SetIdleCycles \/ ReadDrCall \/ WriteDrCall

SpecDr == Init /\ [][NextDr]_vars

(***************************************************************************)
(* Vocabulary of the write_ir property.                                    *)
(***************************************************************************)
\* write_ir was called with enough data and its jtag_io call succeeded.
WriteIrShifted ==
    /\ jtag_call.fn = "write_ir"
    /\ jtag_call.len >= 1
    /\ Len(jtag_call.data) * 8 >= jtag_call.len
    /\ jtag_log # <<>>
    /\ jtag_log[1].ok

\* The bits of data, from bit 0 of data[0] upwards.
DataBit(data, n) == BitOf(data[(n \div 8) + 1], n % 8)

\* TDI carried the len data bits LSB-first behind four zeros, with two
\* zeros behind them.
IrBitsLsbFirst ==
    LET tdi == jtag_log[1].tdi
        len == jtag_call.len
    IN  /\ Len(tdi) = 4 + len + 2
        /\ Len(jtag_log[1].tms) = Len(tdi)
        /\ \A n \in 0..(len - 1) : tdi[4 + n + 1] = DataBit(jtag_call.data, n)

\* write_ir succeeds for the lengths up to max, and fails with
\* NotImplemented for those above.
WriteIrUpTo(max) ==
    WriteIrShifted =>
       IF jtag_call.len <= max
       THEN /\ jtag_ret = "Ok"
            /\ IrBitsLsbFirst
            /\ current_ir_reg = jtag_call.data[1]
       ELSE jtag_ret = "NotImplemented"

\* C29: write_ir(data, len) succeeds for every 1 <= len <= 8 with at least
\* len bits of data, shifting the len data bits LSB-first and setting
\* current_ir to data[0], and fails with NotImplemented for every len > 8.
\* Stated for the calls whose jtag_io the probe carried out.
C29_WriteIrUpToEight == WriteIrUpTo(8)

\* What the code does: the last length that succeeds is 7.
WriteIrUpToSeven == WriteIrUpTo(7)

(***************************************************************************)
(* Vocabulary of the read_dr and write_dr property.                        *)
(***************************************************************************)
\* read_dr or write_dr has made its jtag_io call.
DrShifted ==
    /\ jtag_call.fn \in {"read_dr", "write_dr"}
    /\ jtag_log # <<>>

\* TMS = 1,0,0, then n - 1 zeros, then 1,1,0, then the idle cycles.
DrTmsAsSpecified ==
    LET tms == jtag_log[1].tms
        n == jtag_call.len
    IN  /\ Len(tms) = n + 5 + jtag_call.idle
        /\ SubSeq(tms, 1, 3) = <<TRUE, FALSE, FALSE>>
        /\ \A i \in 4..(n + 2) : ~tms[i]
        /\ SubSeq(tms, n + 3, n + 5) = <<TRUE, TRUE, FALSE>>
        /\ \A i \in (n + 6)..Len(tms) : ~tms[i]

\* TDI of read_dr is all zeros; TDI of write_dr is 3 zeros, the n data bits
\* LSB-first, 2 zeros and the idle cycles.
DrTdiAsSpecified ==
    LET tdi == jtag_log[1].tdi
        n == jtag_call.len
    IN  /\ Len(tdi) = n + 5 + jtag_call.idle
        /\ IF jtag_call.fn = "read_dr"
           THEN \A i \in 1..Len(tdi) : ~tdi[i]
           ELSE /\ \A i \in 1..3 : ~tdi[i]
                /\ \A i \in 0..(n - 1) : tdi[3 + i + 1] = DataBit(jtag_call.data, i)
                /\ \A i \in (n + 4)..Len(tdi) : ~tdi[i]

\* The bytes returned are the n response bits behind the first 3, bit i of
\* them in bit i % 8 of byte i / 8, in ceil(n / 8) bytes.
DrResultAsSpecified ==
    LET tdo == jtag_log[1].tdo
        n == jtag_call.len
    IN  /\ Len(jtag_data) = (n + 7) \div 8
        /\ \A i \in 0..(n - 1) :
              BitOf(jtag_data[(i \div 8) + 1], i % 8) = tdo[3 + i + 1]
        /\ \A i \in n..(8 * Len(jtag_data) - 1) :
              ~BitOf(jtag_data[(i \div 8) + 1], i % 8)
        /\ \A k \in 1..Len(jtag_data) : jtag_data[k] \in 0..255

\* C30: read_dr(n) and write_dr(data, n), for n >= 1, send TMS = 1,0,0,
\* then n-1 zeros, then 1,1,0, then idle_cycles zeros (n + 5 + idle_cycles
\* bits); read_dr's TDI is all zeros and write_dr's TDI is 3 zeros, the n
\* data bits LSB-first, 2 zeros and idle_cycles zeros; both return the n
\* response bits that follow the first 3 response bits, packed LSB-first
\* into ceil(n/8) bytes.
C30_DrShift ==
    DrShifted =>
       /\ DrTmsAsSpecified
       /\ DrTdiAsSpecified
       /\ jtag_ret = "Ok" <=> jtag_log[1].ok
       /\ jtag_ret = "Ok" => DrResultAsSpecified

\* write_dr of nine bits with two idle cycles, TDO high around the
\* register's bits: two bytes come back, the second with one bit.
C30_Witness ==
    /\ DrShifted
    /\ jtag_call = [fn |-> "write_dr", data |-> <<52, 130>>, len |-> 9, idle |-> 2]
    /\ jtag_ret = "Ok"
    /\ jtag_log[1].tdo[1]
    /\ Len(jtag_log[1].tms) = 16
    /\ jtag_data = <<165, 1>>

(***************************************************************************)
(* perform_transfers given two batches that look the same on the wire:     *)
(* what it builds for the one and for the other.                           *)
(***************************************************************************)
\* Transfers with unlike access port indices, and with addresses that have
\* the same bits 2 and 3: 16 is DPIDR's and Abort's 0 with bit 4 set, 20
\* is CTRL/STAT's 4 with bit 4 set.
TwinTransfers ==
    { SwdTransfer(DebugPort, d, a, IF d = "Write" THEN WriteValue ELSE 0) :
         d \in {"Read", "Write"}, a \in {0, 4, 16, 20} }
    \cup
    { SwdTransfer(AccessPort(i), d, a, IF d = "Write" THEN WriteValue ELSE 0) :
         i \in {0, 1}, d \in {"Read", "Write"}, a \in {0, 4} }

TwinBatches == UNION { [1..n -> TwinTransfers] : n \in 1..2 }

\* Bits 2 and 3 of the address.
WireAddress(address) == (address \div 4) % 4

\* The two transfers differ at most in the index of the access port and in
\* address bits other than bits 2 and 3.
SameOnWire(t, u) ==
    /\ t.port.type = u.port.type
    /\ t.direction = u.direction
    /\ t.value = u.value
    /\ WireAddress(t.address) = WireAddress(u.address)

\* The same, with the addresses equal: only the index differs.
SameButIndex(t, u) == SameOnWire(t, u) /\ t.address = u.address

AlikeBatches(a, b) ==
    /\ Len(a) = Len(b)
    /\ \A k \in 1..Len(a) : SameOnWire(a[k], b[k])

\* perform_transfers(probe, transfers) and perform_transfers(probe, other)
\* up to their calls of probe.swd_io
TwinCall ==
    /\ pc = "idle"
    /\ \E batch \in TwinBatches :
          \E other \in {b \in TwinBatches : AlikeBatches(batch, b)} :
             /\ transfers' = batch
             /\ locals' = BuildSequence(batch)
             /\ twin' = [transfers |-> other, locals |-> BuildSequence(other)]
    /\ pc' = "swd_io"
    /\ UNCHANGED <<result, responses, ret, dap_vars, probe_vars>>

NextTwin == TwinCall

SpecTwin == Init /\ [][NextTwin]_vars

\* Both batches have been built.
TwinBuilt == pc = "swd_io" /\ twin # NoTwin

\* swd_io is handed the same direction bits and the same data bits.
SameSequences ==
    /\ locals.io_sequence.direction = twin.locals.io_sequence.direction
    /\ locals.io_sequence.io = twin.locals.io_sequence.io

\* C31: for two batches that differ only in the index of AccessPort
\* transfers or in address bits other than bits 2 and 3, perform_transfers
\* hands the probe identical direction and data sequences.
C31_SameOnWireSameSequences == TwinBuilt => SameSequences

\* The part that holds: with equal addresses the index changes nothing.
IndexIsNotOnWire ==
    (TwinBuilt /\ \A k \in 1..Len(transfers) :
                     SameButIndex(transfers[k], twin.transfers[k]))
       => SameSequences

\* The frames themselves are the same, one by one; where the sequences
\* differ, a frame was inserted in one of them.
FramesAlike ==
    TwinBuilt =>
       \A k \in 1..Len(transfers) :
          build_swd_transfer(transfers[k].port, transfer_type(transfers[k]),
                             transfers[k].address)
          = build_swd_transfer(twin.transfers[k].port,
                               transfer_type(twin.transfers[k]),
                               twin.transfers[k].address)

(***************************************************************************)
(* attach and the JTAG register accesses of one client, one call at a      *)
(* time, in any order.                                                     *)
(***************************************************************************)
\* The addresses of the accesses: the one a new probe holds in
\* current_ir_reg, and another.
FewAddresses == {1, 5}

NextJtagAttach ==
    \/ probe_pc = "idle" /\ JtagCallWith(FewAddresses)
    \/ WriteIr
    \/ DrAccess
    \/ jtag_pc = "idle" /\ SelectProtocol
    \/ jtag_pc = "idle" /\ AttachCall
    \/ AttachSwdInit
    \/ AttachLineReset
    \/ AttachJtag

SpecJtagAttach == Init /\ [][NextJtagAttach]_vars

\* The access goes to the data register without having written the IR.
IrWriteSkipped == jtag_pc = "dr" /\ jtag_log = <<>>

\* The last DebugProbe call was attach, it chose JTAG and returned Ok: the
\* TAP has been reset and only register accesses have come since.
AttachedWithJtag ==
    /\ probe_pc = "idle"
    /\ probe_call.fn = "attach"
    /\ probe_ret.status = "Ok"
    /\ \E i \in 1..Len(probe_log) : probe_log[i].call = "reset_trst"

\* C32: taking the TAP's instruction register to be reset by the TRST/TMS
\* reset that attach performs in JTAG mode, for every interleaving of
\* attach and JTAG register accesses: whenever read_register or
\* write_register skips the IR write because the address equals
\* current_ir, the TAP's instruction register holds that address.
C32_SkippedIrWriteIsSafe ==
    (AttachedWithJtag /\ IrWriteSkipped) => ir_shifted = jtag_call.address

(***************************************************************************)
(* Vocabulary of the bounds of a batch.                                    *)
(***************************************************************************)
\* perform_transfers has built its sequence.
SequenceBuilt == pc # "idle" /\ transfers # <<>>

\* The highest bit parse_swd_response reads of a frame: the parity bit,
\* behind two more turnaround bits when a Write is expected.
LastBitRead(f) == IF f.kind = "Read" THEN 10 + 3 + 32 ELSE 10 + 3 + 2 + 32

\* Every result index is that of a frame that was emitted, and of a
\* response that will be parsed.
IndicesInRange ==
    /\ Len(locals.result_indices) = Len(transfers)
    /\ Len(locals.expected_responses) = locals.num_transfers
    /\ Len(locals.wire) = locals.num_transfers
    /\ \A k \in 1..Len(transfers) :
          locals.result_indices[k] \in 0..(locals.num_transfers - 1)

\* The bits read of the last frame are bits of the burst.
LastFrameInBurst ==
    LET last == Len(locals.wire)
    IN  EmittedAt(locals.wire, last) + LastBitRead(locals.wire[last])
           < Len(locals.io_sequence.io)

\* C33: for every non-empty batch, every recorded result index is smaller
\* than the number of frames emitted and parsed, so the result retrieval
\* never indexes past the parsed responses, and every bit read while
\* parsing the last frame lies within the L-bit response.
C33_IndicesAndBitsInRange ==
    /\ SequenceBuilt => IndicesInRange /\ LastFrameInBurst
    /\ (pc = "returned" /\ ret = "Ok") =>
          /\ Len(responses) = locals.num_transfers
          /\ Len(result) = Len(locals.io_sequence.io)
          /\ \A k \in 1..Len(transfers) :
                locals.result_indices[k] < Len(responses)

\* A batch whose last transfer is a write: its result is that of the
\* trailing read, the last response parsed.
C33_Witness ==
    /\ pc = "returned"
    /\ ret = "Ok"
    /\ Len(transfers) = 2
    /\ transfers[2].direction = "Write"
    /\ locals.result_indices[2] = Len(responses) - 1
    /\ transfers[2].status = StatusOk

\* The frames between the frame of the k-th transfer and that of the next.
FramesBetween(k) ==
    LET from == CHOOSE i \in 1..Len(locals.wire) : locals.wire[i].src = k
        to == CHOOSE i \in 1..Len(locals.wire) : locals.wire[i].src = k + 1
    IN  {i \in (from + 1)..(to - 1) : locals.wire[i].src = 0}

\* need_ap_read and buffered_write after the first k transfers.
FlagsAfter(k) == Loop(FirstTransfer(transfers), SubSeq(transfers, 1, k), 2)

\* C34: between two consecutive caller transfers at most one auxiliary
\* RDBUFF read is inserted (need_ap_read and buffered_write are never both
\* true), so a batch of n >= 1 transfers emits at least n and at most 2n
\* frames.
C34_AtMostOneAuxiliary ==
    SequenceBuilt =>
       /\ \A k \in 1..(Len(transfers) - 1) :
             /\ Cardinality(FramesBetween(k)) <= 1
             /\ \A i \in FramesBetween(k) :
                   FrameBits(locals.wire[i]) = RdBuffFrame
       /\ \A k \in 1..Len(transfers) :
             ~(FlagsAfter(k).need_ap_read /\ FlagsAfter(k).buffered_write)
       /\ Len(locals.wire) >= Len(transfers)
       /\ Len(locals.wire) <= 2 * Len(transfers)

\* Two AP accesses, each with its auxiliary read: an AP write held back
\* before a DPIDR read, and 2n frames in all.
C34_Witness ==
    /\ SequenceBuilt
    /\ Len(transfers) = 2
    /\ Len(locals.wire) = 4
    /\ Cardinality(FramesBetween(1)) = 1
    /\ is_ap_write(transfers[1])

(***************************************************************************)
(* Vocabulary of set_speed inside the range it accepts.                    *)
(***************************************************************************)
\* base_freq + 1000 * khz, in the integers
BasePlusHz(khz) == WideAdd(handle.base_freq, U32(khz, 0))

\* 1 <= khz <= 65534, base_freq >= 1, min_div >= 1 and
\* base_freq + 1000 * khz - 1 < 2^32
RequestInRange ==
    /\ probe_call.khz \in 1..65534
    /\ U32Less(U32(0, 0), handle.base_freq)
    /\ handle.min_div >= 1
    /\ U32Less(WideSub(BasePlusHz(probe_call.khz), U32(0, 1)), U32Modulus)

\* C35: for every 1 <= khz <= 65534, base_freq >= 1 and min_div >= 1 with
\* base_freq + 1000*khz - 1 < 2^32, the speed computed by set_speed never
\* exceeds khz, so set_speed never returns UnsupportedSpeed for a request
\* inside the accepted range.  Where base_freq + 1000*khz is 2^32 itself
\* the sum wraps to 0 and a build with overflow checks stops there; a
\* build without them goes on with the right numerator.
C35_NeverUnsupportedInRange ==
    (SetSpeedDone /\ RequestInRange /\ probe_call.read_ok) =>
       /\ probe_ret.status # "UnsupportedSpeed"
       /\ probe_ret.status = "Panic" =>
             probe_call.checked /\ BasePlusHz(probe_call.khz) = U32Modulus
       /\ probe_ret.status = "Ok" =>
             /\ probe_ret.value <= probe_call.khz
             /\ probe_ret.value = ActualFor(probe_call.khz)
       /\ probe_ret.status # "Panic" =>
             compute_speed(probe_call.khz, handle).actual <= probe_call.khz

\* 1000 kHz asked of a probe with base frequency 2^32 - 1 000 000 Hz, in a
\* build without overflow checks: the divider is 4294 and 1000 kHz is set.
C35_Witness ==
    /\ SetSpeedDone
    /\ RequestInRange
    /\ probe_call.khz = 1000
    /\ handle.base_freq = U32(4293967, 296)
    /\ ~probe_call.checked
    /\ probe_ret = [status |-> "Ok", value |-> 1000]

(***************************************************************************)
(* Every function of the driver that calls jtag_io, one call of one of     *)
(* them in a behaviour: write_ir, read_dr and write_dr after               *)
(* set_idle_cycles, and attach after select_protocol.                      *)
(***************************************************************************)
\* None of write_ir, read_dr and write_dr has been called.
NoShiftYet == jtag_call.fn = "none"

\* Neither select_protocol nor attach has been called.
NoProbeCallYet == probe_call = NoProbeCall

NextJtagIo ==
    \/ NoProbeCallYet /\ NoShiftYet /\ SetIdleCycles
    \/ NoProbeCallYet /\ NoShiftYet /\ WriteIrCall
    \/ NoProbeCallYet /\ NoShiftYet /\ ReadDrCall
    \/ NoProbeCallYet /\ NoShiftYet /\ WriteDrCall
    \/ NoShiftYet /\ SelectProtocol
    \/ NoShiftYet /\ AttachCall
    \/ AttachSwdInit
    \/ AttachLineReset
    \/ AttachJtag

SpecJtagIo == Init /\ [][NextJtagIo]_vars

\* The jtag_io calls made: those of write_ir, read_dr and write_dr, and
\* that of attach.
JtagIoCalls ==
    { jtag_log[i] : i \in 1..Len(jtag_log) }
    \cup { [op |-> "reset", tms |-> probe_log[i].tms, tdi |-> probe_log[i].tdi,
            ok |-> probe_log[i].ok] :
              i \in { j \in 1..Len(probe_log) : probe_log[j].call = "jtag_io" } }

\* C36: every jtag_io call the driver makes (the attach reset, read_dr,
\* write_dr and write_ir) passes TMS and TDI sequences of equal length, for
\* every register length >= 1 and every idle_cycles value.
C36_TmsAndTdiSameLength ==
    \A c \in { [tms |-> x.tms, tdi |-> x.tdi] : x \in JtagIoCalls } :
       /\ Len(c.tms) = Len(c.tdi)
       /\ Len(c.tms) >= 6

\* read_dr(32) with two idle cycles: 39 bits of each.
C36_Witness ==
    /\ jtag_call.fn = "read_dr"
    /\ jtag_call.len = 32
    /\ jtag_idle_cycles = 2
    /\ jtag_log # <<>>
    /\ Len(jtag_log[1].tms) = 39
    /\ Len(jtag_log[1].tdi) = 39

(***************************************************************************)
(* An IoSequence on its own: the five operations that change it, in any    *)
(* order, up to MaxBits bits.  codec_in holds the operation applied last   *)
(* and the positions of the bits that were added as input.                 *)
(***************************************************************************)
\* The slices add_output_sequence is given.
OutputSlices == {<<>>, <<TRUE, FALSE>>}

\* The lengths add_input_sequence is given.
InputLengths == {0, 2, 3}

\* The sequences extend is given: an empty one, and an output bit with an
\* input bit behind it.
OtherSequences == {IoSequence_new, add_input(add_output(IoSequence_new, TRUE))}

InitSeq ==
    /\ SwdIdle
    /\ JtagIdle
    /\ DebugIdle
    /\ handle = UsualHandle
    /\ parse_in = NotParsing
    /\ parse_out = NotParsed
    /\ codec_in = [op |-> "new", inputs |-> {}]
    /\ codec_out = IoSequence_new

\* One operation: the sequence afterwards, and the positions (0-based) it
\* added as input.
Applied(op, after, inputs) ==
    /\ Len(after.io) <= MaxBits
    /\ Len(after.direction) <= MaxBits
    /\ codec_out' = after
    /\ codec_in' = [op |-> op, inputs |-> codec_in.inputs \cup inputs]
    /\ UNCHANGED <<parse_in, parse_out, batch_vars, dap_vars, jtag_vars,
                   debug_vars>>

AddOutput ==
    \E bit \in BOOLEAN : Applied("add_output", add_output(codec_out, bit), {})

AddOutputSequence ==
    \E bits \in OutputSlices :
       Applied("add_output_sequence", add_output_sequence(codec_out, bits), {})

AddInput ==
    Applied("add_input", add_input(codec_out), {Len(codec_out.io)})

AddInputSequence ==
    \E length \in InputLengths :
       Applied("add_input_sequence", add_input_sequence(codec_out, length),
               Len(codec_out.io)..(Len(codec_out.io) + length - 1))

Extend ==
    \E other \in OtherSequences :
       Applied("extend", extend(codec_out, other), {})

NextSeq ==
    \/ AddOutput
    \/ AddOutputSequence
    \/ AddInput
    \/ AddInputSequence
    \/ Extend

SpecSeq == InitSeq /\ [][NextSeq]_vars

\* C37: after any sequence of IoSequence operations (add_output,
\* add_output_sequence, add_input, add_input_sequence, extend) the io and
\* direction sequences have equal length, and every bit added by add_input
\* or add_input_sequence has io = false and direction = input.
C37_IoSequenceWellFormed ==
    /\ Len(codec_out.io) = Len(codec_out.direction)
    /\ \A n \in codec_in.inputs :
          /\ n < Len(codec_out.io)
          /\ n < Len(codec_out.direction)
          /\ At(codec_out.io, n) = FALSE
          /\ At(codec_out.direction, n) = INPUT

\* An output one, three input bits from add_input_sequence, and one more
\* from add_input behind an extend.
C37_Witness ==
    /\ codec_in = [op |-> "add_input", inputs |-> {1, 2, 3, 5}]
    /\ codec_out.io = <<TRUE, FALSE, FALSE, FALSE, TRUE, FALSE>>
    /\ codec_out.direction = <<OUTPUT, INPUT, INPUT, INPUT, OUTPUT, INPUT>>

=============================================================================
